---- MODULE Spec2Model ----
(***************************************************************************)
(* Music bot: the per-guild MusicQueue, the playback driver               *)
(* (AudioPlayer.play_next / _handle_song_finished) and the command         *)
(* handlers of MusicBot that drive them, for one guild.                    *)
(*                                                                         *)
(* Everything the bot does runs on one asyncio event loop, so a handler    *)
(* is atomic between two awaits: each action below is one such stretch.    *)
(* The voice client (discord.py) is the environment: its play / stop /     *)
(* pause / resume / disconnect / is_playing / is_connected are modelled    *)
(* at the places the bot calls them.                                       *)
(***************************************************************************)
EXTENDS Integers, Sequences, FiniteSets, TLC

\* Songs are numbered in the order /play enqueues them.
MaxSongs == 3
\* Voice clients (one per successful channel.connect) ever created.
MaxVC == 2

\* Optional[...] = None (queue.py:15, bot.py:50 "guild not in voice_connections").
None == 0

SongIds == 1..MaxSongs
VCIds == 1..MaxVC

\* The MTG bot: the messages Discord creates, what they can be, and the
\* instants (tenths of a second) at which the clock is read. The suppression
\* window is 1.5 s (mtg bot.py:90) and the prefix "!" (config.py:69).
MaxMsgs == 3
Window == 15
Instants == {0, 14, 15, 16}
command_prefix == "!"

\* The music bot's volumes, in hundredths: what set_volume may be given, and
\* the default of get_volume (audio.py:270).
Levels == {-50, 0, 30, 100, 150}
default_volume == 50

\* Guilds that use the bot.
MaxGuilds == 2
Guilds == 1..MaxGuilds

\* The /play commands handled, at once or one after another, and the connect
\* attempts one of them makes (bot.py:459).
MaxPlays == 2
Plays == 1..MaxPlays
Attempts == 3

\* The card cache: the sizes it is configured with, the clock's last reading
\* and the number of calls made. Time is counted in lifetimes (ttl_seconds is
\* one unit), so an entry expires on the second tick after it was written.
\* Three card names, one more than fit, and two values a fetch can return or a
\* caller can set: Python's None, or a card.
MaxSize == 2
MaxTime == 2
MaxCacheOps == 3
Keys == {1, 2, 3}
Values == {None, 1}

Dot == "."

VARIABLES
    q,                  \* the guild's MusicQueue
    voice_connections,  \* MusicBot.voice_connections[guild]: a voice client or None
    vcs,                \* the voice client objects: connected, player state, song
    nvc,                \* voice clients created so far
    spawns,             \* play_next tasks created by /play, not yet started
    tasks,              \* play_next invocations awaiting _create_audio_source
    handlers,           \* _handle_song_finished coroutines scheduled by after_playing
    stopping,           \* the /stop handler awaiting voice_client.disconnect()
    left_events,        \* "bot left the voice channel" gateway events not yet handled
    closing,            \* MusicBot.close(): "no", "disconnecting" (awaiting) or "closed"
    url,                \* Song.url of each song: the locator the extractor gave it
    nextId,             \* history: the next song number
    popped,             \* history: the songs next() returned, in order
    discarded,          \* history: the songs clear() dropped from pending
    ev,                 \* history: the last operation, its inputs and what it saw
    queues,             \* QueueManager._queues: guild -> MusicQueue instance, or None
    objs,               \* the MusicQueue instances QueueManager created, in order
    mev,                \* history: the last QueueManager call and what it returned
    cache,              \* CardCache._cache: key -> CacheItem, or NoItem
    stats,              \* CardCache._stats: hits, misses, evictions
    max_size,           \* CardCache._max_size
    ttl_seconds,        \* CardCache._ttl_seconds
    now,                \* time.time()
    calls,              \* get_or_set calls awaiting their factory, counted by key
    cev,                \* history: the last CardCache call and what it returned
    recent_commands,    \* MTGCardBot._recent_commands: (author, text) -> time, or None
    processed_message_ids, \* MTGCardBot._processed_message_ids
    clock,              \* time.time() as the MTG bot reads it, in tenths of a second
    msgs,               \* the messages Discord has created: msgs[id] is message id
    bev,                \* history: the last on_message call and what it did
    volumes,            \* AudioPlayer._volumes: guild -> volume, for the guilds set
    vev,                \* history: the last volume call, and the value last given
                        \* to set_volume for each guild since its cleanup
    plays,              \* the /play handlers: where each stands and what it replied
    pev                 \* history: the last step of a /play handler

managerVars == <<queues, objs, mev>>

cacheVars == <<cache, stats, max_size, ttl_seconds, now, calls, cev>>

mtgVars == <<recent_commands, processed_message_ids, clock, msgs, bev>>

volumeVars == <<volumes, vev>>

playVars == <<plays, pev>>

\* What the music bot's handlers never write.
restVars == <<url, volumeVars, playVars, managerVars, cacheVars, mtgVars>>

vars == <<q, voice_connections, vcs, nvc, spawns, tasks, handlers, stopping,
          left_events, closing, nextId, popped, discarded, ev, restVars>>

botVars == <<voice_connections, vcs, nvc, spawns, tasks, handlers, stopping,
             left_events, closing>>

-----------------------------------------------------------------------------
(* MusicQueue (queue.py). Each method holds the queue's RLock for its whole *)
(* body, so each is one atomic function of the queue's fields.              *)

MusicQueue ==
    [songs |-> <<>>, current |-> None, is_playing |-> FALSE,
     is_paused |-> FALSE, should_skip |-> FALSE]

add_lost(qu, song) == [q |-> [qu EXCEPT !.songs = <<song>>], ret |-> 0]

add_counts(qu, song) ==
    LET songs == Append(qu.songs, song)
    IN [q |-> [qu EXCEPT !.songs = songs], ret |-> Len(songs)]

add(qu, song) ==
    [q |-> [qu EXCEPT !.songs = Append(qu.songs, song)], ret |-> Len(qu.songs)]

next_lifo(qu) ==
    IF qu.songs = <<>>
    THEN [q |-> qu, ret |-> None]
    ELSE [q |-> [qu EXCEPT !.songs = SubSeq(qu.songs, 1, Len(qu.songs) - 1)],
          ret |-> qu.songs[Len(qu.songs)]]

next(qu) ==
    IF qu.songs = <<>>
    THEN [q |-> qu, ret |-> None]
    ELSE [q |-> [qu EXCEPT !.songs = Tail(qu.songs)], ret |-> Head(qu.songs)]

set_current(qu, song) == [qu EXCEPT !.current = song]

set_playing(qu, playing) == [qu EXCEPT !.is_playing = playing]

set_paused(qu, paused) == [qu EXCEPT !.is_paused = paused]

skip_toggles(qu) == [qu EXCEPT !.should_skip = ~@]

skip(qu) == [qu EXCEPT !.should_skip = TRUE]

set_skip(qu, b) == [qu EXCEPT !.should_skip = b]

is_empty(qu) == Len(qu.songs) = 0

clear_keeps_paused(qu) ==
    [qu EXCEPT !.songs = <<>>, !.current = None, !.is_playing = FALSE,
               !.should_skip = FALSE]

clear(qu) ==
    [songs |-> <<>>, current |-> None, is_playing |-> FALSE,
     is_paused |-> FALSE, should_skip |-> FALSE]

-----------------------------------------------------------------------------
(* History. *)

Range(s) == {s[i] : i \in 1..Len(s)}

NoEv ==
    [op |-> "init", pre |-> MusicQueue, mid |-> MusicQueue, song |-> None,
     ret |-> None, connected |-> FALSE, stale |-> FALSE, clean |-> FALSE,
     start |-> <<>>, tried |-> <<>>, accepted |-> FALSE, ntasks |-> 0,
     got |-> <<>>, vc |-> None, resolving |-> FALSE, extracted |-> FALSE]

\* The songs added so far that no clear() dropped, in insertion order.
RECURSIVE KeptFrom(_)
KeptFrom(i) ==
    IF i >= nextId THEN <<>>
    ELSE IF i \in discarded THEN KeptFrom(i + 1)
    ELSE <<i>> \o KeptFrom(i + 1)

Kept == KeptFrom(1)

\* returned: the instances get_queue has returned so far, by guild.
NoMev ==
    [op |-> "init", guild |-> None, ret |-> None, had |-> FALSE, pre |-> <<>>,
     returned |-> [g \in Guilds |-> {}]]

\* n: the calls made so far; evicted: the key the call evicted; found: what
\* the call met ("absent", "swept", "expired" or "fresh" for a lookup of its
\* key, "new" or "existing" for a store, "entries" or "empty" for a clear);
\* raised: the key whose fetch failed last with no other get_or_set pending,
\* while only get_or_set calls have followed the failure.
NoCev ==
    [op |-> "init", key |-> None, value |-> None, ret |-> None, n |-> 0,
     evicted |-> None, found |-> "nothing", raised |-> None]

\* MusicBot.__init__ (bot.py:41-50) and the guild's MusicQueue.
MusicInit ==
    /\ q = MusicQueue
    /\ voice_connections = None
    /\ vcs = [v \in VCIds |-> [connected |-> FALSE, state |-> "idle", song |-> None]]
    /\ nvc = 0
    /\ spawns = {}
    /\ tasks = {}
    /\ handlers = {}
    /\ stopping = FALSE
    /\ left_events = 0
    /\ closing = "no"
    /\ nextId = 1
    /\ popped = <<>>
    /\ discarded = {}
    /\ ev = NoEv

\* QueueManager.__init__ (queue.py:107-110).
ManagerInit ==
    /\ queues = [g \in Guilds |-> None]
    /\ objs = <<>>
    /\ mev = NoMev

\* CardCache.__init__ (cache.py:51-58).
CacheInit(max, ttl) ==
    /\ cache = <<>>
    /\ stats = [hits |-> 0, misses |-> 0, evictions |-> 0]
    /\ max_size = max
    /\ ttl_seconds = ttl
    /\ now = 0
    /\ calls = [k \in Keys |-> 0]
    /\ cev = NoCev

\* redelivery: the message had been delivered before; at: the clock's reading
\* in the call; reason: why on_message
\* returned ("bot", "seen", "no prefix", "duplicate") or "accepted"; key: the
\* (author, normalized text) pair; last: when the pair was accepted before,
\* empty if never; handler: the command handler that ran ("none" if none);
\* reply: what was sent to the channel ("none" if nothing).
NoBev ==
    [op |-> "init", id |-> None, redelivery |-> FALSE, at |-> 0,
     reason |-> "none", key |-> <<>>, last |-> <<>>, handler |-> "none",
     reply |-> "none"]

\* mtg bot.py:49-53.
MtgInit ==
    /\ recent_commands = <<>>
    /\ processed_message_ids = {}
    /\ clock = 0
    /\ msgs = <<>>
    /\ bev = NoBev

\* given[g]: the value last given to set_volume for guild g since the guild's
\* cleanup, in a sequence that is empty when there is none.
NoVev ==
    [op |-> "init", guild |-> None, arg |-> 0, ret |-> 0, pre |-> <<>>,
     given |-> [g \in Guilds |-> <<>>]]

\* AudioPlayer.__init__ (audio.py:72).
VolumeInit ==
    /\ volumes = <<>>
    /\ vev = NoVev

\* A /play handler: pc is where it stands ("new": not called; "extract",
\* "connect", "sleep": awaiting extract_song_info, channel.connect or
\* asyncio.sleep; "done": past its last line), attempt the loop variable of
\* bot.py:459, tries the calls of channel.connect it has made, client the
\* voice client _get_or_create_voice_connection returned to it, reply the
\* content of its response as last written.
NoPlay ==
    [pc |-> "new", attempt |-> 0, tries |-> 0, client |-> None, reply |-> "none"]

\* h: the handler; outcome: how the awaited call ended; entry: the guild's
\* voice_connections entry when the step ended; pre: the queue before it.
NoPev ==
    [op |-> "init", h |-> None, outcome |-> "none", entry |-> None,
     pre |-> MusicQueue]

\* No /play has been issued.
PlayInit ==
    /\ plays = [h \in Plays |-> NoPlay]
    /\ pev = NoPev

\* The music bot, every song coming with the same allow-listed locator.
Init ==
    /\ MusicInit
    /\ VolumeInit
    /\ PlayInit
    /\ url = [s \in SongIds |-> [scheme |-> "https", hostname |-> <<"youtube", Dot, "com">>]]
    /\ ManagerInit
    /\ CacheInit(1, 1)
    /\ MtgInit

-----------------------------------------------------------------------------
(* The queue alone: its methods called in any order by any caller. *)

QAdd ==
    /\ nextId <= MaxSongs
    /\ LET r == add(q, nextId) IN
        /\ q' = r.q
        /\ ev' = [NoEv EXCEPT !.op = "add", !.pre = q, !.song = nextId, !.ret = r.ret]
    /\ nextId' = nextId + 1
    /\ UNCHANGED <<popped, discarded>>
    /\ UNCHANGED botVars
    /\ UNCHANGED restVars

QNextCall ==
    /\ LET r == next(q) IN
        /\ q' = r.q
        /\ popped' = IF r.ret = None THEN popped ELSE Append(popped, r.ret)
        /\ ev' = [NoEv EXCEPT !.op = "next", !.pre = q, !.ret = r.ret]
    /\ UNCHANGED <<nextId, discarded>>
    /\ UNCHANGED botVars
    /\ UNCHANGED restVars

QClear ==
    /\ q' = clear(q)
    /\ discarded' = discarded \cup Range(q.songs)
    /\ ev' = [NoEv EXCEPT !.op = "clear", !.pre = q]
    /\ UNCHANGED <<nextId, popped>>
    /\ UNCHANGED botVars
    /\ UNCHANGED restVars

QSetCurrent ==
    /\ \E s \in {None} \cup Range(popped) :
        /\ q' = set_current(q, s)
        /\ ev' = [NoEv EXCEPT !.op = "set_current", !.pre = q, !.song = s]
    /\ UNCHANGED <<nextId, popped, discarded>>
    /\ UNCHANGED botVars
    /\ UNCHANGED restVars

QSetPlaying ==
    /\ \E b \in BOOLEAN :
        /\ q' = set_playing(q, b)
        /\ ev' = [NoEv EXCEPT !.op = "set_playing", !.pre = q, !.accepted = b]
    /\ UNCHANGED <<nextId, popped, discarded>>
    /\ UNCHANGED botVars
    /\ UNCHANGED restVars

QSetPaused ==
    /\ \E b \in BOOLEAN :
        /\ q' = set_paused(q, b)
        /\ ev' = [NoEv EXCEPT !.op = "set_paused", !.pre = q, !.accepted = b]
    /\ UNCHANGED <<nextId, popped, discarded>>
    /\ UNCHANGED botVars
    /\ UNCHANGED restVars

QSkip ==
    /\ q' = skip(q)
    /\ ev' = [NoEv EXCEPT !.op = "skip", !.pre = q]
    /\ UNCHANGED <<nextId, popped, discarded>>
    /\ UNCHANGED botVars
    /\ UNCHANGED restVars

QSetSkip ==
    /\ \E b \in BOOLEAN :
        /\ q' = set_skip(q, b)
        /\ ev' = [NoEv EXCEPT !.op = "set_skip", !.pre = q, !.accepted = b]
    /\ UNCHANGED <<nextId, popped, discarded>>
    /\ UNCHANGED botVars
    /\ UNCHANGED restVars

QueueNext ==
    \/ QAdd
    \/ QNextCall
    \/ QClear
    \/ QSetCurrent
    \/ QSetPlaying
    \/ QSetPaused
    \/ QSkip
    \/ QSetSkip

QueueSpec == Init /\ [][QueueNext]_vars

-----------------------------------------------------------------------------
(* Song locators (Song.url) as urlparse splits them: the scheme and the    *)
(* hostname, both in lower case; no hostname is the empty string. A         *)
(* hostname is a string, written here as the sequence of its pieces: the   *)
(* dots and the runs of characters between them, a run possibly in several *)
(* pieces ("evilyoutube" is "evil" followed by "youtube").                 *)

\* audio.py:248-255.
safe_domains ==
    { <<"youtube", Dot, "com">>, <<"youtu", Dot, "be">>,
      <<"music", Dot, "youtube", Dot, "com">>,
      <<"soundcloud", Dot, "com">>, <<"spotify", Dot, "com">>,
      <<"bandcamp", Dot, "com">>, <<"vimeo", Dot, "com">>, <<"twitch", Dot, "tv">>,
      <<"googlevideo", Dot, "com">>, <<"ytimg", Dot, "com">>,
      <<"sndcdn", Dot, "com">>, <<"scdn", Dot, "co">> }

\* str.endswith.
endswith(str, suffix) ==
    /\ Len(str) >= Len(suffix)
    /\ SubSeq(str, Len(str) - Len(suffix) + 1, Len(str)) = suffix

is_safe_url_any_suffix(u) ==
    IF u.scheme \notin {"https", "http"}
    THEN FALSE
    ELSE \E d \in safe_domains : endswith(u.hostname, d)

\* audio.py:236-265.
is_safe_url(u) ==
    IF u.scheme \notin {"https", "http"}
    THEN FALSE
    ELSE LET host == u.hostname IN
         IF ~(\E d \in safe_domains : host = d \/ endswith(host, <<Dot>> \o d))
         THEN FALSE
         ELSE TRUE

\* The locators songs come with.
Locators ==
    { [scheme |-> "https", hostname |-> <<"youtube", Dot, "com">>],
      [scheme |-> "http", hostname |-> <<"rr3", Dot, "googlevideo", Dot, "com">>],
      [scheme |-> "ftp", hostname |-> <<"youtube", Dot, "com">>],
      [scheme |-> "https", hostname |-> <<"evil", "youtube", Dot, "com">>],
      [scheme |-> "https", hostname |-> <<"youtube", Dot, "com", Dot, "evil", Dot, "net">>],
      [scheme |-> "file", hostname |-> <<>>] }

\* audio.py:195-234: what _create_audio_source can come to for a locator: whether
\* it called the extractor (_extract_stream_url) and whether it returned a
\* source. An unsafe locator makes it return None before any await.
create_audio_source(u) ==
    IF ~is_safe_url(u)
    THEN {[source |-> FALSE, extracted |-> FALSE]}
    ELSE {[source |-> FALSE, extracted |-> TRUE], [source |-> TRUE, extracted |-> TRUE]}

-----------------------------------------------------------------------------
(* AudioPlayer (audio.py): the stretches of play_next and                  *)
(* _handle_song_finished that run without an await, as functions of the    *)
(* queue and of what voice_client.is_connected() answers. Each returns the *)
(* queue it leaves, the songs next() handed it (got), the song whose audio *)
(* source it went on to await (song, when resolving), and for the two      *)
(* continuations the queue as it stood before play_next was called again   *)
(* (mid).                                                                  *)

idle(qu) == set_current(set_playing(qu, FALSE), None)

RECURSIVE play_next_drains(_, _)
play_next_drains(qu, connected) ==
    IF is_empty(qu)
    THEN [q |-> idle(qu), got |-> <<>>, song |-> None, resolving |-> FALSE]
    ELSE LET r == next(qu)
             q1 == set_skip(set_playing(set_current(r.q, r.ret), TRUE), FALSE)
         IN IF connected
            THEN [q |-> q1, got |-> <<r.ret>>, song |-> r.ret, resolving |-> TRUE]
            ELSE LET d == play_next_drains(set_playing(set_current(q1, None), FALSE),
                                           connected)
                 IN [d EXCEPT !.got = <<r.ret>> \o d.got]

play_next_keeps_state(qu, connected) ==
    IF is_empty(qu)
    THEN [q |-> idle(qu), got |-> <<>>, song |-> None, resolving |-> FALSE]
    ELSE LET r == next(qu)
             q1 == set_skip(set_playing(set_current(r.q, r.ret), TRUE), FALSE)
         IN IF ~connected
            THEN [q |-> q1, got |-> <<r.ret>>, song |-> None, resolving |-> FALSE]
            ELSE [q |-> q1, got |-> <<r.ret>>, song |-> r.ret, resolving |-> TRUE]

\* audio.py:108-142: up to the await of _create_audio_source, or the return.
play_next(qu, connected) ==
    IF is_empty(qu)
    THEN [q |-> idle(qu), got |-> <<>>, song |-> None, resolving |-> FALSE]
    ELSE LET r == next(qu) IN
         IF r.ret = None
         THEN [q |-> idle(r.q), got |-> <<>>, song |-> None, resolving |-> FALSE]
         ELSE LET q1 == set_skip(set_playing(set_current(r.q, r.ret), TRUE), FALSE) IN
              IF ~connected
              THEN [q |-> set_playing(set_current(q1, None), FALSE),
                    got |-> <<r.ret>>, song |-> None, resolving |-> FALSE]
              ELSE [q |-> q1, got |-> <<r.ret>>, song |-> r.ret, resolving |-> TRUE]

play_next_failed_keeps_current(qu, connected) ==
    LET mid == set_playing(qu, FALSE)
        r == play_next(mid, connected)
    IN [q |-> r.q, mid |-> mid, got |-> r.got, song |-> r.song, resolving |-> r.resolving]

play_next_failed_gives_up(qu, connected) ==
    LET mid == set_playing(set_current(qu, None), FALSE)
    IN [q |-> mid, mid |-> mid, got |-> <<>>, song |-> None, resolving |-> FALSE]

\* audio.py:147-153 (no audio source) and 168-177 (voice_client.play raised).
play_next_failed(qu, connected) ==
    LET mid == set_playing(set_current(qu, None), FALSE)
        r == play_next(mid, connected)
    IN [q |-> r.q, mid |-> mid, got |-> r.got, song |-> r.song, resolving |-> r.resolving]

handle_song_finished_stops_on_skip(qu, connected) ==
    LET mid == set_playing(set_current(qu, None), FALSE) IN
    IF ~mid.should_skip
    THEN LET r == play_next(mid, connected)
         IN [q |-> r.q, mid |-> mid, got |-> r.got, song |-> r.song,
             resolving |-> r.resolving]
    ELSE [q |-> set_skip(mid, FALSE), mid |-> mid, got |-> <<>>, song |-> None,
          resolving |-> FALSE]

\* audio.py:179-193.
handle_song_finished(qu, connected) ==
    LET mid == set_playing(set_current(qu, None), FALSE)
        r == IF ~mid.should_skip
             THEN play_next(mid, connected)
             ELSE play_next(set_skip(mid, FALSE), connected)
    IN [q |-> r.q, mid |-> mid, got |-> r.got, song |-> r.song, resolving |-> r.resolving]

-----------------------------------------------------------------------------
(* The voice client, as the bot uses it. A player is idle, playing or      *)
(* paused; is_playing() is true only of a playing one. stop() and          *)
(* disconnect() end the player, whose thread then calls after_playing,     *)
(* which schedules _handle_song_finished on the event loop.                *)

NoPlayer == [connected |-> FALSE, state |-> "idle", song |-> None]

vc_is_playing(vs, v) == vs[v].state = "playing"

vc_is_paused(vs, v) == vs[v].state = "paused"

\* after_playing (audio.py:156-164) for the player that stop() ends.
after_playing(vs, v) ==
    IF vs[v].state = "idle" THEN {}
    ELSE {[vc |-> v, song |-> vs[v].song, stale |-> FALSE]}

vc_stop(vs, v) == [vs EXCEPT ![v].state = "idle", ![v].song = None]

vc_disconnect(vs, v) == [vs EXCEPT ![v] = NoPlayer]

\* A history mark: the chain of play_next invocations was interfered with.
Dirty(ts) == {[t EXCEPT !.clean = FALSE, !.start = <<>>, !.tried = <<>>] : t \in ts}

\* A history mark: the queue was cleared while the handler was scheduled.
Stale(hs) == {[h EXCEPT !.stale = TRUE] : h \in hs}

-----------------------------------------------------------------------------
(* MusicBot (bot.py): the command handlers and the gateway event.          *)

\* bot.py:259-275, from the return of _get_or_create_voice_connection on: it
\* returned the registered client, still connected (434-437), or a new one from
\* channel.connect, which first disconnects a client the guild still has but
\* the bot no longer registers (480-486).
PlayCommand ==
    /\ closing # "closed"
    /\ nextId <= MaxSongs
    /\ IF voice_connections = None
       THEN nvc < MaxVC
       ELSE vcs[voice_connections].connected
    /\ LET fresh == voice_connections = None
           v == IF fresh THEN nvc + 1 ELSE voice_connections
           old == IF fresh THEN {o \in VCIds : vcs[o].connected} ELSE {}
           r == add(q, nextId)
           start == r.ret = 0 /\ ~r.q.is_playing
       IN /\ voice_connections' = v
          /\ nvc' = IF fresh THEN nvc + 1 ELSE nvc
          /\ vcs' = IF fresh
                    THEN [o \in VCIds |->
                            IF o = v THEN [NoPlayer EXCEPT !.connected = TRUE]
                            ELSE IF o \in old THEN NoPlayer ELSE vcs[o]]
                    ELSE vcs
          /\ handlers' = handlers \cup UNION {after_playing(vcs, o) : o \in old}
          /\ left_events' = left_events + Cardinality(old)
          /\ q' = r.q
          /\ spawns' = IF start THEN spawns \cup {[vc |-> v, by |-> nextId]} ELSE spawns
          /\ ev' = [NoEv EXCEPT !.op = "play", !.pre = q, !.song = nextId,
                                !.ret = r.ret, !.accepted = start]
    /\ nextId' = nextId + 1
    /\ tasks' = Dirty(tasks)
    /\ UNCHANGED <<stopping, popped, discarded>>
    /\ UNCHANGED <<closing, restVars>>

\* bot.py:434-445: /play finds a registered client that is no longer connected,
\* disconnects it and forgets it before it connects anew.
PlayDropStale ==
    /\ closing # "closed"
    /\ voice_connections # None
    /\ ~vcs[voice_connections].connected
    /\ handlers' = handlers \cup after_playing(vcs, voice_connections)
    /\ vcs' = vc_disconnect(vcs, voice_connections)
    /\ voice_connections' = None
    /\ tasks' = Dirty(tasks)
    /\ ev' = [NoEv EXCEPT !.op = "drop_stale", !.pre = q]
    /\ UNCHANGED <<q, nvc, spawns, stopping, left_events, nextId, popped, discarded>>
    /\ UNCHANGED <<closing, restVars>>

PauseCommand_unchecked ==
    /\ closing # "closed"
    /\ voice_connections # None
    /\ LET v == voice_connections IN
        /\ q' = set_paused(q, TRUE)
        /\ vcs' = IF vc_is_playing(vcs, v)
                  THEN [vcs EXCEPT ![v].state = "paused"] ELSE vcs
        /\ ev' = [NoEv EXCEPT !.op = "pause", !.pre = q, !.accepted = TRUE]
    /\ tasks' = Dirty(tasks)
    /\ UNCHANGED <<voice_connections, nvc, spawns, handlers, stopping, left_events,
                   nextId, popped, discarded>>
    /\ UNCHANGED <<closing, restVars>>

\* bot.py:285-306, past _validate_user_in_bot_voice_channel.
PauseCommand ==
    /\ closing # "closed"
    /\ voice_connections # None
    /\ LET v == voice_connections
           ok == q.is_playing
       IN /\ q' = IF ok THEN set_paused(q, TRUE) ELSE q
          /\ vcs' = IF ok /\ vc_is_playing(vcs, v)
                    THEN [vcs EXCEPT ![v].state = "paused"] ELSE vcs
          /\ ev' = [NoEv EXCEPT !.op = "pause", !.pre = q, !.accepted = ok]
    /\ tasks' = Dirty(tasks)
    /\ UNCHANGED <<voice_connections, nvc, spawns, handlers, stopping, left_events,
                   nextId, popped, discarded>>
    /\ UNCHANGED <<closing, restVars>>

\* bot.py:308-329.
ResumeCommand ==
    /\ closing # "closed"
    /\ voice_connections # None
    /\ LET v == voice_connections
           ok == q.is_paused
       IN /\ q' = IF ok THEN set_paused(q, FALSE) ELSE q
          /\ vcs' = IF ok /\ vc_is_paused(vcs, v)
                    THEN [vcs EXCEPT ![v].state = "playing"] ELSE vcs
          /\ ev' = [NoEv EXCEPT !.op = "resume", !.pre = q, !.accepted = ok]
    /\ tasks' = Dirty(tasks)
    /\ UNCHANGED <<voice_connections, nvc, spawns, handlers, stopping, left_events,
                   nextId, popped, discarded>>
    /\ UNCHANGED <<closing, restVars>>

\* bot.py:331-359.
SkipCommand ==
    /\ closing # "closed"
    /\ voice_connections # None
    /\ LET v == voice_connections
           ok == q.is_playing
           halt == ok /\ vc_is_playing(vcs, v)
       IN /\ q' = IF ok THEN skip(q) ELSE q
          /\ vcs' = IF halt THEN vc_stop(vcs, v) ELSE vcs
          /\ handlers' = IF halt THEN handlers \cup after_playing(vcs, v) ELSE handlers
          /\ ev' = [NoEv EXCEPT !.op = "skip", !.pre = q, !.accepted = ok,
                                !.song = q.current]
    /\ tasks' = Dirty(tasks)
    /\ UNCHANGED <<voice_connections, nvc, spawns, stopping, left_events,
                   nextId, popped, discarded>>
    /\ UNCHANGED <<closing, restVars>>

\* bot.py:361-373: /stop up to the await of voice_client.disconnect(), which ends
\* the player and leaves the channel at once and then waits for the network.
\* One /stop is in flight at a time.
StopBegin ==
    /\ closing # "closed"
    /\ voice_connections # None
    /\ ~stopping
    /\ LET v == voice_connections IN
        /\ handlers' = handlers \cup after_playing(vcs, v)
        /\ vcs' = vc_disconnect(vcs, v)
        /\ left_events' = IF vcs[v].connected THEN left_events + 1 ELSE left_events
    /\ stopping' = TRUE
    /\ tasks' = Dirty(tasks)
    /\ ev' = [NoEv EXCEPT !.op = "stop_begin", !.pre = q]
    /\ UNCHANGED <<q, voice_connections, nvc, spawns, nextId, popped, discarded>>
    /\ UNCHANGED <<closing, restVars>>

\* bot.py:374-379: del voice_connections[guild_id] (a KeyError ends the handler
\* when the entry is gone by now), then clear_queue.
StopEnd ==
    /\ stopping
    /\ stopping' = FALSE
    /\ IF voice_connections = None
       THEN /\ ev' = [NoEv EXCEPT !.op = "stop_keyerror", !.pre = q]
            /\ UNCHANGED <<q, voice_connections, handlers, discarded>>
       ELSE /\ voice_connections' = None
            /\ q' = clear(q)
            /\ discarded' = discarded \cup Range(q.songs)
            /\ handlers' = Stale(handlers)
            /\ ev' = [NoEv EXCEPT !.op = "stop", !.pre = q]
    /\ tasks' = Dirty(tasks)
    /\ UNCHANGED <<vcs, nvc, spawns, left_events, nextId, popped>>
    /\ UNCHANGED <<closing, restVars>>

\* The bot is removed from its voice channel from outside: the voice client
\* disconnects itself (ending its player) and the gateway reports the change.
Kick ==
    /\ \E v \in VCIds :
        /\ vcs[v].connected
        /\ handlers' = handlers \cup after_playing(vcs, v)
        /\ vcs' = vc_disconnect(vcs, v)
    /\ left_events' = left_events + 1
    /\ tasks' = Dirty(tasks)
    /\ ev' = [NoEv EXCEPT !.op = "kick", !.pre = q]
    /\ UNCHANGED <<q, voice_connections, nvc, spawns, stopping, nextId, popped, discarded>>
    /\ UNCHANGED <<closing, restVars>>

\* bot.py:138-155: on_voice_state_update for the bot's own member leaving.
VoiceStateUpdate ==
    /\ closing # "closed"
    /\ left_events > 0
    /\ left_events' = left_events - 1
    /\ voice_connections' = None
    /\ q' = clear(q)
    /\ discarded' = discarded \cup Range(q.songs)
    /\ handlers' = Stale(handlers)
    /\ tasks' = Dirty(tasks)
    /\ ev' = [NoEv EXCEPT !.op = "disconnect", !.pre = q]
    /\ UNCHANGED <<vcs, nvc, spawns, stopping, nextId, popped>>
    /\ UNCHANGED <<closing, restVars>>

\* bot.py:574-592: close() up to the await of voice_client.disconnect(force=True)
\* for the guild's client, if it is registered and connected; with no such
\* client close() goes on to bot.py:592-599 without an await.
CloseBegin ==
    /\ closing = "no"
    /\ IF voice_connections # None /\ vcs[voice_connections].connected
       THEN LET v == voice_connections IN
            /\ handlers' = handlers \cup after_playing(vcs, v)
            /\ vcs' = vc_disconnect(vcs, v)
            /\ left_events' = left_events + 1
            /\ closing' = "disconnecting"
            /\ ev' = [NoEv EXCEPT !.op = "close_begin", !.pre = q]
            /\ UNCHANGED <<q, voice_connections, discarded>>
       ELSE /\ voice_connections' = None
            /\ q' = clear(q)
            /\ discarded' = discarded \cup Range(q.songs)
            /\ handlers' = Stale(handlers)
            /\ closing' = "closed"
            /\ ev' = [NoEv EXCEPT !.op = "close", !.pre = q]
            /\ UNCHANGED <<vcs, left_events>>
    /\ tasks' = Dirty(tasks)
    /\ UNCHANGED <<nvc, spawns, stopping, nextId, popped>>
    /\ UNCHANGED restVars

\* bot.py:592-599: voice_connections.clear() and clear_queue for every guild.
\* close() then goes on into Client.close(), which shuts the gateway: from here
\* on no command and no gateway event is handled.
CloseEnd ==
    /\ closing = "disconnecting"
    /\ closing' = "closed"
    /\ voice_connections' = None
    /\ q' = clear(q)
    /\ discarded' = discarded \cup Range(q.songs)
    /\ handlers' = Stale(handlers)
    /\ tasks' = Dirty(tasks)
    /\ ev' = [NoEv EXCEPT !.op = "close", !.pre = q]
    /\ UNCHANGED <<vcs, nvc, spawns, stopping, left_events, nextId, popped>>
    /\ UNCHANGED restVars

-----------------------------------------------------------------------------
(* The playback driver's steps. *)

NewTask(v, r, start, tried, clean) ==
    IF r.resolving
    THEN {[vc |-> v, song |-> r.song, start |-> start, tried |-> tried, clean |-> clean]}
    ELSE {}

\* The task /play created runs play_next (audio.py:108-145). asyncio starts it
\* on a later turn of the event loop; here, at any later time.
PlayNextStart ==
    /\ \E t \in spawns :
        LET r == play_next(q, vcs[t.vc].connected) IN
        /\ spawns' = spawns \ {t}
        /\ q' = r.q
        /\ popped' = popped \o r.got
        /\ tasks' = Dirty(tasks) \cup NewTask(t.vc, r, q.songs, <<>>, TRUE)
        /\ ev' = [NoEv EXCEPT !.op = "start", !.pre = q, !.got = r.got,
                              !.connected = vcs[t.vc].connected,
                              !.ntasks = Cardinality(tasks)]
    /\ UNCHANGED <<voice_connections, vcs, nvc, handlers, stopping, left_events,
                   nextId, discarded>>
    /\ UNCHANGED <<closing, restVars>>

\* _create_audio_source returned None (audio.py:147-153).
SourceFailed ==
    /\ \E t \in tasks : \E o \in create_audio_source(url[t.song]) :
        LET r == play_next_failed(q, vcs[t.vc].connected) IN
        /\ ~o.source
        /\ q' = r.q
        /\ popped' = popped \o r.got
        /\ tasks' = Dirty(tasks \ {t})
                      \cup NewTask(t.vc, r, t.start, Append(t.tried, t.song), t.clean)
        /\ ev' = [NoEv EXCEPT !.op = "retry", !.pre = q, !.mid = r.mid, !.got = r.got,
                              !.song = t.song,
                              !.connected = vcs[t.vc].connected,
                              !.ntasks = Cardinality(tasks \ {t}),
                              !.start = t.start, !.tried = Append(t.tried, t.song),
                              !.clean = t.clean, !.resolving = r.resolving,
                              !.extracted = o.extracted]
    /\ UNCHANGED <<voice_connections, vcs, nvc, spawns, handlers, stopping, left_events,
                   nextId, discarded>>
    /\ UNCHANGED <<closing, restVars>>

\* _create_audio_source returned a source: voice_client.play (audio.py:166), which
\* raises when the client is not connected or is already playing (168-177).
SourceCreated ==
    /\ \E t \in tasks : \E o \in create_audio_source(url[t.song]) :
        /\ o.source
        /\ IF vcs[t.vc].connected /\ ~vc_is_playing(vcs, t.vc)
           THEN /\ vcs' = [vcs EXCEPT ![t.vc].state = "playing", ![t.vc].song = t.song]
                /\ tasks' = Dirty(tasks \ {t})
                /\ ev' = [NoEv EXCEPT !.op = "bound", !.pre = q, !.song = t.song,
                                      !.vc = t.vc, !.start = t.start, !.tried = t.tried,
                                      !.clean = t.clean, !.extracted = o.extracted]
                /\ UNCHANGED <<q, popped>>
           ELSE LET r == play_next_failed(q, vcs[t.vc].connected) IN
                /\ q' = r.q
                /\ popped' = popped \o r.got
                /\ tasks' = Dirty(tasks \ {t})
                              \cup NewTask(t.vc, r, t.start, Append(t.tried, t.song),
                                           t.clean)
                /\ ev' = [NoEv EXCEPT !.op = "retry", !.pre = q, !.mid = r.mid,
                                      !.got = r.got, !.song = t.song,
                                      !.connected = vcs[t.vc].connected,
                                      !.ntasks = Cardinality(tasks \ {t}),
                                      !.start = t.start,
                                      !.tried = Append(t.tried, t.song),
                                      !.clean = t.clean, !.resolving = r.resolving,
                                      !.extracted = o.extracted]
                /\ UNCHANGED vcs
    /\ UNCHANGED <<voice_connections, nvc, spawns, handlers, stopping, left_events,
                   nextId, discarded>>
    /\ UNCHANGED <<closing, restVars>>

SongEnds_direct ==
    /\ \E v \in VCIds :
        LET r == handle_song_finished(q, vcs[v].connected) IN
        /\ vc_is_playing(vcs, v)
        /\ vcs' = vc_stop(vcs, v)
        /\ q' = r.q
        /\ popped' = popped \o r.got
        /\ tasks' = Dirty(tasks) \cup NewTask(v, r, q.songs, <<>>, TRUE)
        /\ ev' = [NoEv EXCEPT !.op = "ended", !.pre = q, !.song = vcs[v].song]
    /\ UNCHANGED <<voice_connections, nvc, spawns, handlers, stopping, left_events,
                   nextId, discarded>>
    /\ UNCHANGED <<closing, restVars>>

\* The song plays to its end: the player thread calls after_playing.
SongEnds ==
    /\ \E v \in VCIds :
        /\ vc_is_playing(vcs, v)
        /\ handlers' = handlers \cup after_playing(vcs, v)
        /\ vcs' = vc_stop(vcs, v)
        /\ ev' = [NoEv EXCEPT !.op = "ended", !.pre = q, !.song = vcs[v].song]
    /\ tasks' = Dirty(tasks)
    /\ UNCHANGED <<q, voice_connections, nvc, spawns, stopping, left_events,
                   nextId, popped, discarded>>
    /\ UNCHANGED <<closing, restVars>>

\* _handle_song_finished runs on the event loop (audio.py:179-193, into play_next).
SongFinished ==
    /\ \E h \in handlers :
        LET r == handle_song_finished(q, vcs[h.vc].connected) IN
        /\ handlers' = handlers \ {h}
        /\ q' = r.q
        /\ popped' = popped \o r.got
        /\ tasks' = Dirty(tasks) \cup NewTask(h.vc, r, q.songs, <<>>, TRUE)
        /\ ev' = [NoEv EXCEPT !.op = "finished", !.pre = q, !.mid = r.mid,
                              !.got = r.got, !.song = h.song, !.stale = h.stale,
                              !.connected = vcs[h.vc].connected,
                              !.ntasks = Cardinality(tasks)]
    /\ UNCHANGED <<voice_connections, vcs, nvc, spawns, stopping, left_events,
                   nextId, discarded>>
    /\ UNCHANGED <<closing, restVars>>

\* What the driver does by itself, no command given.
DriverNext ==
    \/ PlayNextStart
    \/ SourceFailed
    \/ SourceCreated
    \/ SongEnds
    \/ SongFinished

Next ==
    \/ PlayCommand
    \/ PlayDropStale
    \/ PauseCommand
    \/ ResumeCommand
    \/ SkipCommand
    \/ StopBegin
    \/ StopEnd
    \/ Kick
    \/ VoiceStateUpdate
    \/ CloseBegin
    \/ CloseEnd
    \/ PlayNextStart
    \/ SourceFailed
    \/ SourceCreated
    \/ SongEnds
    \/ SongFinished

Spec == Init /\ [][Next]_vars

\* The driver on a sink that stays connected, every source creation failing.
\* asyncio runs a created task, and _create_audio_source returns (the extractor
\* has a socket timeout): the two steps are weakly fair.
DrainNext ==
    \/ PlayCommand
    \/ PauseCommand
    \/ ResumeCommand
    \/ SkipCommand
    \/ PlayNextStart
    \/ SourceFailed

DrainSpec ==
    Init /\ [][DrainNext]_vars /\ WF_vars(PlayNextStart) /\ WF_vars(SourceFailed)

\* /resume for a paused queue (bot.py:317-323).
ResumeAccepted == q.is_paused /\ ResumeCommand

\* Playback on a sink that stays connected, every source creation succeeding.
LiveNext ==
    \/ PlayCommand
    \/ PauseCommand
    \/ ResumeCommand
    \/ SkipCommand
    \/ PlayNextStart
    \/ SourceCreated
    \/ SongEnds
    \/ SongFinished

\* asyncio runs a created task and a coroutine handed to
\* run_coroutine_threadsafe, and _create_audio_source returns: these steps are
\* weakly fair. A paused song is resumed, and a song that plays, paused and
\* resumed however often, comes to its end.
LiveSpec ==
    /\ Init
    /\ [][LiveNext]_vars
    /\ WF_vars(PlayNextStart)
    /\ WF_vars(SourceCreated)
    /\ WF_vars(SongFinished)
    /\ WF_vars(ResumeAccepted)
    /\ SF_vars(SongEnds)

\* The driver on a sink that stays connected, the songs coming with any of the
\* locators.
LocatorInit ==
    /\ MusicInit
    /\ VolumeInit
    /\ PlayInit
    /\ url \in [SongIds -> Locators]
    /\ ManagerInit
    /\ CacheInit(1, 1)
    /\ MtgInit

LocatorNext ==
    \/ PlayCommand
    \/ SkipCommand
    \/ PlayNextStart
    \/ SourceFailed
    \/ SourceCreated
    \/ SongEnds
    \/ SongFinished

LocatorSpec == LocatorInit /\ [][LocatorNext]_vars

-----------------------------------------------------------------------------
(* CardCache (cache.py). _cache is a dict: the items in insertion order,   *)
(* one per key. Every method body runs under the asyncio lock and awaits   *)
(* only coroutines that never suspend, so each is one step; get_or_set     *)
(* awaits its factory between its get and its set. A method reads the      *)
(* clock more than once: t1 is the reading of _cleanup_expired, t2 the     *)
(* later one of is_expired, touch and CacheItem().                         *)

CacheItem(key, value, t) ==
    [key |-> key, value |-> value, created_at |-> t, last_accessed |-> t,
     access_count |-> 1]

\* The place of the key's item in the dict, 0 when it has none.
index(items, key) ==
    IF \E i \in 1..Len(items) : items[i].key = key
    THEN CHOOSE i \in 1..Len(items) : items[i].key = key
    ELSE 0

remove(items, i) == SubSeq(items, 1, i - 1) \o SubSeq(items, i + 1, Len(items))

\* cache.py:38-40.
is_expired(item, t, ttl) == t - item.created_at > ttl

cleanup_expired_skips(items, t, ttl) == items

\* cache.py:116-125.
RECURSIVE cleanup_expired(_, _, _)
cleanup_expired(items, t, ttl) ==
    IF items = <<>> THEN <<>>
    ELSE IF t - Head(items).created_at > ttl
         THEN cleanup_expired(Tail(items), t, ttl)
         ELSE <<Head(items)>> \o cleanup_expired(Tail(items), t, ttl)

evict_mru(items, st) ==
    IF items = <<>>
    THEN [cache |-> items, stats |-> st, evicted |-> None]
    ELSE LET mru == CHOOSE i \in 1..Len(items) :
                      /\ \A j \in 1..Len(items) :
                            items[i].last_accessed >= items[j].last_accessed
                      /\ \A j \in (i + 1)..Len(items) :
                            items[j].last_accessed < items[i].last_accessed
         IN [cache |-> remove(items, mru),
             stats |-> [st EXCEPT !.evictions = @ + 1],
             evicted |-> items[mru].key]

\* cache.py:127-135: min() returns the first of the least recently used items.
evict_lru(items, st) ==
    IF items = <<>>
    THEN [cache |-> items, stats |-> st, evicted |-> None]
    ELSE LET lru == CHOOSE i \in 1..Len(items) :
                      /\ \A j \in 1..Len(items) :
                            items[i].last_accessed <= items[j].last_accessed
                      /\ \A j \in 1..(i - 1) :
                            items[j].last_accessed > items[i].last_accessed
         IN [cache |-> remove(items, lru),
             stats |-> [st EXCEPT !.evictions = @ + 1],
             evicted |-> items[lru].key]

cache_get_stale(items, st, key, t1, t2, ttl) ==
    LET i == index(items, key)
    IN IF i = 0
       THEN [cache |-> items, stats |-> [st EXCEPT !.misses = @ + 1], ret |-> None,
             found |-> "absent"]
       ELSE [cache |-> [items EXCEPT ![i].access_count = @ + 1,
                                     ![i].last_accessed = t2],
             stats |-> [st EXCEPT !.hits = @ + 1],
             ret |-> items[i].value, found |-> "fresh"]

cache_get_renews(items, st, key, t1, t2, ttl) ==
    LET swept == cleanup_expired(items, t1, ttl)
        i == index(swept, key)
    IN IF i = 0
       THEN [cache |-> swept, stats |-> [st EXCEPT !.misses = @ + 1], ret |-> None,
             found |-> IF index(items, key) = 0 THEN "absent" ELSE "swept"]
       ELSE IF is_expired(swept[i], t2, ttl)
            THEN [cache |-> remove(swept, i),
                  stats |-> [st EXCEPT !.misses = @ + 1], ret |-> None,
                  found |-> "expired"]
            ELSE [cache |-> [swept EXCEPT ![i].access_count = @ + 1,
                                          ![i].last_accessed = t2,
                                          ![i].created_at = t2],
                  stats |-> [st EXCEPT !.hits = @ + 1],
                  ret |-> swept[i].value, found |-> "fresh"]

\* cache.py:60-78.
cache_get(items, st, key, t1, t2, ttl) ==
    LET swept == cleanup_expired(items, t1, ttl)
        i == index(swept, key)
    IN IF i = 0
       THEN [cache |-> swept, stats |-> [st EXCEPT !.misses = @ + 1], ret |-> None,
             found |-> IF index(items, key) = 0 THEN "absent" ELSE "swept"]
       ELSE IF is_expired(swept[i], t2, ttl)
            THEN [cache |-> remove(swept, i),
                  stats |-> [st EXCEPT !.misses = @ + 1], ret |-> None,
                  found |-> "expired"]
            ELSE [cache |-> [swept EXCEPT ![i].access_count = @ + 1,
                                          ![i].last_accessed = t2],
                  stats |-> [st EXCEPT !.hits = @ + 1],
                  ret |-> swept[i].value, found |-> "fresh"]

cache_set_no_evict(items, st, key, value, t1, t2, max, ttl) ==
    LET swept == cleanup_expired(items, t1, ttl)
        i == index(swept, key)
    IN [cache |-> IF i = 0 THEN Append(swept, CacheItem(key, value, t2))
                  ELSE [swept EXCEPT ![i] = CacheItem(key, value, t2)],
        stats |-> st, evicted |-> None,
        found |-> IF i = 0 THEN "new" ELSE "existing"]

cache_set_evicts_existing(items, st, key, value, t1, t2, max, ttl) ==
    LET swept == cleanup_expired(items, t1, ttl)
        e == IF Len(swept) >= max
             THEN evict_lru(swept, st)
             ELSE [cache |-> swept, stats |-> st, evicted |-> None]
        i == index(e.cache, key)
    IN [cache |-> IF i = 0 THEN Append(e.cache, CacheItem(key, value, t2))
                  ELSE [e.cache EXCEPT ![i] = CacheItem(key, value, t2)],
        stats |-> e.stats, evicted |-> e.evicted,
        found |-> IF i = 0 THEN "new" ELSE "existing"]

cache_set_keeps_age(items, st, key, value, t1, t2, max, ttl) ==
    LET swept == cleanup_expired(items, t1, ttl)
        e == IF Len(swept) >= max /\ index(swept, key) = 0
             THEN evict_lru(swept, st)
             ELSE [cache |-> swept, stats |-> st, evicted |-> None]
        i == index(e.cache, key)
    IN [cache |-> IF i = 0 THEN Append(e.cache, CacheItem(key, value, t2))
                  ELSE [e.cache EXCEPT ![i].value = value],
        stats |-> e.stats, evicted |-> e.evicted,
        found |-> IF i = 0 THEN "new" ELSE "existing"]

\* cache.py:80-91.
cache_set(items, st, key, value, t1, t2, max, ttl) ==
    LET swept == cleanup_expired(items, t1, ttl)
        e == IF Len(swept) >= max /\ index(swept, key) = 0
             THEN evict_lru(swept, st)
             ELSE [cache |-> swept, stats |-> st, evicted |-> None]
        i == index(e.cache, key)
    IN [cache |-> IF i = 0 THEN Append(e.cache, CacheItem(key, value, t2))
                  ELSE [e.cache EXCEPT ![i] = CacheItem(key, value, t2)],
        stats |-> e.stats, evicted |-> e.evicted,
        found |-> IF i = 0 THEN "new" ELSE "existing"]

cache_clear_resets(items, st) ==
    [cache |-> <<>>, stats |-> [hits |-> 0, misses |-> 0, evictions |-> 0],
     found |-> IF items = <<>> THEN "empty" ELSE "entries"]

\* cache.py:105-109.
cache_clear(items, st) ==
    [cache |-> <<>>, stats |-> st,
     found |-> IF items = <<>> THEN "empty" ELSE "entries"]

\* The clock's readings within one method: the first is now (Tick is the time
\* that passes before the call), a later one is now or a tick later.
Readings == {t \in {now, now + 1} : t <= MaxTime}

Get ==
    /\ cev.n < MaxCacheOps
    /\ \E key \in Keys, t2 \in Readings :
        LET r == cache_get(cache, stats, key, now, t2, ttl_seconds) IN
        /\ cache' = r.cache
        /\ stats' = r.stats
        /\ now' = t2
        /\ cev' = [op |-> "get", key |-> key, value |-> None, ret |-> r.ret,
                   n |-> cev.n + 1, evicted |-> None, found |-> r.found, raised |-> None]
    /\ UNCHANGED <<max_size, ttl_seconds, calls>>
    /\ UNCHANGED <<q, botVars, nextId, popped, discarded, ev, url, volumeVars, playVars, managerVars,
                 mtgVars>>

Set ==
    /\ cev.n < MaxCacheOps
    /\ \E key \in Keys, value \in Values, t2 \in Readings :
        LET r == cache_set(cache, stats, key, value, now, t2, max_size, ttl_seconds) IN
        /\ cache' = r.cache
        /\ stats' = r.stats
        /\ now' = t2
        /\ cev' = [op |-> "set", key |-> key, value |-> value, ret |-> None,
                   n |-> cev.n + 1, evicted |-> r.evicted,
                   found |-> r.found, raised |-> None]
    /\ UNCHANGED <<max_size, ttl_seconds, calls>>
    /\ UNCHANGED <<q, botVars, nextId, popped, discarded, ev, url, volumeVars, playVars, managerVars,
                 mtgVars>>

Clear ==
    /\ cev.n < MaxCacheOps
    /\ LET r == cache_clear(cache, stats) IN
        /\ cache' = r.cache
        /\ stats' = r.stats
        /\ cev' = [op |-> "clear", key |-> None, value |-> None, ret |-> None,
                   n |-> cev.n + 1, evicted |-> None,
                   found |-> r.found, raised |-> None]
    /\ UNCHANGED <<max_size, ttl_seconds, now, calls>>
    /\ UNCHANGED <<q, botVars, nextId, popped, discarded, ev, url, volumeVars, playVars, managerVars,
                 mtgVars>>

\* cache.py:93-101: get_or_set up to its return of the cached value, or to the
\* await of factory(key).
GetOrSetBegin ==
    /\ cev.n < MaxCacheOps
    /\ \E key \in Keys, t2 \in Readings :
        LET r == cache_get(cache, stats, key, now, t2, ttl_seconds) IN
        /\ cache' = r.cache
        /\ stats' = r.stats
        /\ now' = t2
        /\ calls' = IF r.ret # None THEN calls ELSE [calls EXCEPT ![key] = @ + 1]
        /\ cev' = [op |-> "get_or_set_get", key |-> key, value |-> None,
                   ret |-> r.ret, n |-> cev.n + 1, evicted |-> None,
                   found |-> r.found, raised |-> cev.raised]
    /\ UNCHANGED <<max_size, ttl_seconds>>
    /\ UNCHANGED <<q, botVars, nextId, popped, discarded, ev, url, volumeVars, playVars, managerVars,
                 mtgVars>>

\* cache.py:101-103: the factory returned a value; set and return it.
GetOrSetEnd ==
    /\ \E key \in Keys, value \in Values, t2 \in Readings :
        LET r == cache_set(cache, stats, key, value, now, t2, max_size, ttl_seconds) IN
        /\ calls[key] > 0
        /\ cache' = r.cache
        /\ stats' = r.stats
        /\ now' = t2
        /\ calls' = [calls EXCEPT ![key] = @ - 1]
        /\ cev' = [op |-> "get_or_set_set", key |-> key, value |-> value,
                   ret |-> value, n |-> cev.n, evicted |-> r.evicted,
                   found |-> r.found, raised |-> cev.raised]
    /\ UNCHANGED <<max_size, ttl_seconds>>
    /\ UNCHANGED <<q, botVars, nextId, popped, discarded, ev, url, volumeVars, playVars, managerVars,
                 mtgVars>>

GetOrSetFails_poisons ==
    /\ \E key \in Keys :
        LET r == cache_set(cache, stats, key, None, now, now, max_size, ttl_seconds) IN
        /\ calls[key] > 0
        /\ calls' = [calls EXCEPT ![key] = @ - 1]
        /\ cache' = r.cache
        /\ stats' = r.stats
        /\ cev' = [op |-> "get_or_set_raised", key |-> key, value |-> None,
                   ret |-> None, n |-> cev.n, evicted |-> None,
                   found |-> "raised",
                   raised |-> IF \A k \in Keys : k # key => calls[k] = 0
                                 /\ calls[key] = 1
                              THEN key ELSE None]
    /\ UNCHANGED <<max_size, ttl_seconds, now>>
    /\ UNCHANGED <<q, botVars, nextId, popped, discarded, ev, url, volumeVars, playVars, managerVars,
                 mtgVars>>

\* cache.py:101: the factory raised; get_or_set raises with it.
GetOrSetFails ==
    /\ \E key \in Keys :
        /\ calls[key] > 0
        /\ calls' = [calls EXCEPT ![key] = @ - 1]
        /\ cev' = [op |-> "get_or_set_raised", key |-> key, value |-> None,
                   ret |-> None, n |-> cev.n, evicted |-> None,
                   found |-> "raised",
                   raised |-> IF \A k \in Keys : k # key => calls[k] = 0
                                 /\ calls[key] = 1
                              THEN key ELSE None]
    /\ UNCHANGED <<cache, stats, max_size, ttl_seconds, now>>
    /\ UNCHANGED <<q, botVars, nextId, popped, discarded, ev, url, volumeVars, playVars, managerVars,
                 mtgVars>>

\* Time passes.
Tick ==
    /\ now < MaxTime
    /\ now' = now + 1
    /\ UNCHANGED <<cache, stats, max_size, ttl_seconds, calls, cev>>
    /\ UNCHANGED <<q, botVars, nextId, popped, discarded, ev, url, volumeVars, playVars, managerVars,
                 mtgVars>>

\* A cache of any configured size (config.py:89-93: size and lifetime positive).
CacheSpecInit ==
    /\ MusicInit
    /\ VolumeInit
    /\ PlayInit
    /\ url = [s \in SongIds |-> [scheme |-> "https", hostname |-> <<"youtube", Dot, "com">>]]
    /\ ManagerInit
    /\ \E max \in 1..MaxSize : CacheInit(max, 1)
    /\ MtgInit

CacheNext ==
    \/ Get
    \/ Set
    \/ Clear
    \/ GetOrSetBegin
    \/ GetOrSetEnd
    \/ GetOrSetFails
    \/ Tick

CacheSpec == CacheSpecInit /\ [][CacheNext]_vars

-----------------------------------------------------------------------------
(* QueueManager (queue.py:104-130). A MusicQueue instance is its place in  *)
(* objs, the instances in the order they were created. Each method holds   *)
(* the manager's RLock for its whole body.                                 *)

get_queue_fresh(qs, os, guild_id) ==
    [queues |-> [qs EXCEPT ![guild_id] = Len(os) + 1],
     objs |-> Append(os, MusicQueue),
     ret |-> Len(os) + 1]

get_queue(qs, os, guild_id) ==
    IF qs[guild_id] = None
    THEN [queues |-> [qs EXCEPT ![guild_id] = Len(os) + 1],
          objs |-> Append(os, MusicQueue),
          ret |-> Len(os) + 1]
    ELSE [queues |-> qs, objs |-> os, ret |-> qs[guild_id]]

clear_queue_all(qs, os, guild_id) ==
    IF qs[guild_id] # None
    THEN [i \in 1..Len(os) |-> clear(os[i])]
    ELSE os

\* queue.py:119-123.
clear_queue(qs, os, guild_id) ==
    IF qs[guild_id] # None
    THEN [os EXCEPT ![qs[guild_id]] = clear(@)]
    ELSE os

\* A handler looks the guild's queue up (bot.py:292, 315, 338, 384).
GetQueue ==
    /\ \E g \in Guilds :
        LET r == get_queue(queues, objs, g) IN
        /\ Len(r.objs) <= MaxGuilds
        /\ queues' = r.queues
        /\ objs' = r.objs
        /\ mev' = [op |-> "get_queue", guild |-> g, ret |-> r.ret,
                   had |-> queues[g] # None, pre |-> objs,
                   returned |-> [mev.returned EXCEPT ![g] = @ \cup {r.ret}]]
    /\ UNCHANGED <<q, botVars, nextId, popped, discarded, ev, url, volumeVars, playVars, cacheVars,
                 mtgVars>>

\* /play looks the guild's queue up and adds a song to it (bot.py:263-264).
Enqueue ==
    /\ nextId <= MaxSongs
    /\ \E g \in Guilds :
        LET r == get_queue(queues, objs, g) IN
        /\ Len(r.objs) <= MaxGuilds
        /\ queues' = r.queues
        /\ objs' = [r.objs EXCEPT ![r.ret] = add(@, nextId).q]
        /\ mev' = [op |-> "enqueue", guild |-> g, ret |-> r.ret,
                   had |-> queues[g] # None, pre |-> objs,
                   returned |-> [mev.returned EXCEPT ![g] = @ \cup {r.ret}]]
    /\ nextId' = nextId + 1
    /\ UNCHANGED <<q, botVars, popped, discarded, ev, url, volumeVars, playVars, cacheVars,
                 mtgVars>>

\* bot.py:155, 209, 377, 597.
ClearQueue ==
    /\ \E g \in Guilds :
        /\ objs' = clear_queue(queues, objs, g)
        /\ mev' = [mev EXCEPT !.op = "clear_queue", !.guild = g, !.ret = None,
                              !.had = queues[g] # None, !.pre = objs]
    /\ UNCHANGED <<queues, q, botVars, nextId, popped, discarded, ev, url, volumeVars, playVars, cacheVars,
                 mtgVars>>

\* What the handlers and the playback driver do to the guild's queue: /play
\* adds a song (bot.py:263-264), next() (audio.py:120), /skip (bot.py:347),
\* /pause (300), /resume (323), clear_queue (155, 209, 377, 597), play_next
\* (audio.py:108-142) and _handle_song_finished (179-193).
QueueOps ==
    {"enqueue", "next", "skip", "pause", "resume", "clear_queue", "play_next",
     "song_finished"}

on_queue(op, qu, song, connected) ==
    CASE op = "enqueue" -> add(qu, song).q
      [] op = "next" -> next(qu).q
      [] op = "skip" -> skip(qu)
      [] op = "pause" -> set_paused(qu, TRUE)
      [] op = "resume" -> set_paused(qu, FALSE)
      [] op = "play_next" -> play_next(qu, connected).q
      [] op = "song_finished" -> handle_song_finished(qu, connected).q

\* States a guild's queue is in while the bot runs: new; a song added and not
\* yet started; a song playing with another pending; the same, paused and
\* marked to be skipped; idle again with the paused flag left set.
QueueStates ==
    { MusicQueue,
      [MusicQueue EXCEPT !.songs = <<2>>],
      [MusicQueue EXCEPT !.songs = <<3>>, !.current = 2, !.is_playing = TRUE],
      [MusicQueue EXCEPT !.songs = <<3>>, !.current = 2, !.is_playing = TRUE,
                         !.is_paused = TRUE, !.should_skip = TRUE],
      [MusicQueue EXCEPT !.is_paused = TRUE] }

\* The manager with queues for any of the guilds, each in any of these states,
\* created in the order of the guilds' numbers.
IsolationInit ==
    /\ MusicInit
    /\ VolumeInit
    /\ PlayInit
    /\ url = [s \in SongIds |-> [scheme |-> "https", hostname |-> <<"youtube", Dot, "com">>]]
    /\ CacheInit(1, 1)
    /\ MtgInit
    /\ mev = NoMev
    /\ \E have \in SUBSET Guilds, state \in [Guilds -> QueueStates] :
          LET place(g) == Cardinality({h \in have : h <= g}) IN
          /\ queues = [g \in Guilds |-> IF g \in have THEN place(g) ELSE None]
          /\ objs = [i \in 1..Cardinality(have) |->
                        state[CHOOSE g \in have : place(g) = i]]

\* A handler or the driver acts for a guild: clear_queue on the manager, the
\* others on the instance get_queue returns for the guild (bot.py:263, 292,
\* 315, 338), which is the one /play handed to play_next.
GuildOp ==
    /\ mev.op = "init"
    /\ \E g \in Guilds, op \in QueueOps, connected \in BOOLEAN :
        LET r == IF op = "clear_queue"
                 THEN [queues |-> queues, objs |-> clear_queue(queues, objs, g),
                       ret |-> None]
                 ELSE get_queue(queues, objs, g)
        IN /\ queues' = r.queues
           /\ objs' = IF op = "clear_queue" THEN r.objs
                      ELSE [r.objs EXCEPT ![r.ret] = on_queue(op, @, nextId, connected)]
           /\ nextId' = IF op = "enqueue" THEN nextId + 1 ELSE nextId
           /\ mev' = [NoMev EXCEPT !.op = op, !.guild = g]
    /\ UNCHANGED <<q, botVars, popped, discarded, ev, url, volumeVars, playVars, cacheVars,
                 mtgVars>>

ManagerNext ==
    \/ GetQueue
    \/ Enqueue
    \/ ClearQueue

ManagerSpec == Init /\ [][ManagerNext]_vars

\* Every operation on every guild, from every such state of the manager.
IsolationSpec == IsolationInit /\ [][GuildOp]_vars

-----------------------------------------------------------------------------
(* MTGCardBot.on_message (mtg bot.py:68-117). A message's text is the       *)
(* sequence of its pieces: the prefix, blanks, semicolons and words. The    *)
(* suppression structures are read and written before the first await of    *)
(* on_message, so a delivery is one step; the handler it starts sends its   *)
(* reply later without touching them, and the step records that reply.      *)

\* What people and bots write: one lookup in two spellings that differ in case
\* and blanks, a bare prefix, a text without the prefix, a command word and an
\* empty list of queries; the same lookup by a second user and by a bot.
Contents ==
    { <<"!", "bolt", " ", "lea">>,
      <<"!", " ", "Bolt", " ", " ", "LEA", " ">>,
      <<"!">>,
      <<"bolt">>,
      <<"!", "help">>,
      <<"!", ";">> }

Inbound ==
    {[author |-> 1, bot |-> FALSE, content |-> c] : c \in Contents}
    \cup {[author |-> 2, bot |-> FALSE, content |-> <<"!", "bolt", " ", "lea">>],
          [author |-> 3, bot |-> TRUE, content |-> <<"!", "bolt", " ", "lea">>]}

\* str.startswith for a prefix of one piece (mtg bot.py:79).
startswith(content, prefix) == content # <<>> /\ Head(content) = prefix

\* str.lower (mtg bot.py:86).
lower(content) ==
    [i \in 1..Len(content) |->
        IF content[i] = "Bolt" THEN "bolt"
        ELSE IF content[i] = "LEA" THEN "lea"
        ELSE content[i]]

\* str.split(): the words between runs of blanks; word is the one being read.
RECURSIVE split_from(_, _)
split_from(content, word) ==
    IF content = <<>>
    THEN IF word = <<>> THEN <<>> ELSE <<word>>
    ELSE IF Head(content) = " "
         THEN (IF word = <<>> THEN <<>> ELSE <<word>>)
              \o split_from(Tail(content), <<>>)
         ELSE split_from(Tail(content), Append(word, Head(content)))

split(content) == split_from(content, <<>>)

\* " ".join(words).
RECURSIVE join(_)
join(words) ==
    IF words = <<>> THEN <<>>
    ELSE IF Len(words) = 1 THEN words[1]
    ELSE words[1] \o <<" ">> \o join(Tail(words))

\* mtg bot.py:86.
normalized(content) == join(split(lower(content)))

\* mtg bot.py:95-117: the handler the text is given to. A text of blanks only
\* has no parts and on_message returns without a handler.
dispatch(content) ==
    IF \E i \in 1..Len(content) : content[i] = ";" THEN "multi"
    ELSE LET parts == split(content) IN
         IF parts = <<>> THEN "none"
         ELSE LET command == lower(parts[1]) IN
              IF command = <<"random">> THEN "random"
              ELSE IF command = <<"help">> THEN "help"
              ELSE IF command = <<"cache">> THEN "cache"
              ELSE "lookup"

\* What a handler sends to the channel (mtg bot.py:119-170, 205-247, 441-539):
\* a result, or an error message when the lookup failed; a list without any
\* query gets the error message.
replies(handler, content) ==
    IF handler = "none" THEN {"none"}
    ELSE IF handler \in {"help", "cache"} THEN {"result"}
    ELSE IF handler = "multi" /\ \A i \in 1..Len(content) : content[i] \in {";", " "}
         THEN {"error"}
    ELSE {"result", "error"}

on_message_any_id(rc, pm, id, message, t) ==
    IF message.bot
    THEN [recent_commands |-> rc, processed_message_ids |-> pm, reason |-> "bot",
          key |-> <<>>, last |-> <<>>, handler |-> "none"]
    ELSE IF ~startswith(message.content, command_prefix)
    THEN [recent_commands |-> rc, processed_message_ids |-> pm,
          reason |-> "no prefix", key |-> <<>>, last |-> <<>>, handler |-> "none"]
    ELSE LET content == Tail(message.content)
             key == <<message.author, normalized(content)>>
             last == IF key \in DOMAIN rc THEN <<rc[key]>> ELSE <<>>
         IN IF last # <<>> /\ t - last[1] < Window
            THEN [recent_commands |-> rc, processed_message_ids |-> pm,
                  reason |-> "duplicate", key |-> key, last |-> last,
                  handler |-> "none"]
            ELSE [recent_commands |->
                      [k \in DOMAIN rc \cup {key} |-> IF k = key THEN t ELSE rc[k]],
                  processed_message_ids |-> pm \cup {id},
                  reason |-> "accepted", key |-> key, last |-> last,
                  handler |-> dispatch(content)]

on_message_refreshes(rc, pm, id, message, t) ==
    IF message.bot
    THEN [recent_commands |-> rc, processed_message_ids |-> pm, reason |-> "bot",
          key |-> <<>>, last |-> <<>>, handler |-> "none"]
    ELSE IF id \in pm
    THEN [recent_commands |-> rc, processed_message_ids |-> pm, reason |-> "seen",
          key |-> <<>>, last |-> <<>>, handler |-> "none"]
    ELSE IF ~startswith(message.content, command_prefix)
    THEN [recent_commands |-> rc, processed_message_ids |-> pm,
          reason |-> "no prefix", key |-> <<>>, last |-> <<>>, handler |-> "none"]
    ELSE LET content == Tail(message.content)
             key == <<message.author, normalized(content)>>
             last == IF key \in DOMAIN rc THEN <<rc[key]>> ELSE <<>>
         IN IF last # <<>> /\ t - last[1] < Window
            THEN [recent_commands |-> [rc EXCEPT ![key] = t],
                  processed_message_ids |-> pm,
                  reason |-> "duplicate", key |-> key, last |-> last,
                  handler |-> "none"]
            ELSE [recent_commands |->
                      [k \in DOMAIN rc \cup {key} |-> IF k = key THEN t ELSE rc[k]],
                  processed_message_ids |-> pm \cup {id},
                  reason |-> "accepted", key |-> key, last |-> last,
                  handler |-> dispatch(content)]

\* mtg bot.py:68-93 and the dispatch of 95-117, at clock reading t.
on_message(rc, pm, id, message, t) ==
    IF message.bot
    THEN [recent_commands |-> rc, processed_message_ids |-> pm, reason |-> "bot",
          key |-> <<>>, last |-> <<>>, handler |-> "none"]
    ELSE IF id \in pm
    THEN [recent_commands |-> rc, processed_message_ids |-> pm, reason |-> "seen",
          key |-> <<>>, last |-> <<>>, handler |-> "none"]
    ELSE IF ~startswith(message.content, command_prefix)
    THEN [recent_commands |-> rc, processed_message_ids |-> pm,
          reason |-> "no prefix", key |-> <<>>, last |-> <<>>, handler |-> "none"]
    ELSE LET content == Tail(message.content)
             key == <<message.author, normalized(content)>>
             last == IF key \in DOMAIN rc THEN <<rc[key]>> ELSE <<>>
         IN IF last # <<>> /\ t - last[1] < Window
            THEN [recent_commands |-> rc, processed_message_ids |-> pm,
                  reason |-> "duplicate", key |-> key, last |-> last,
                  handler |-> "none"]
            ELSE [recent_commands |->
                      [k \in DOMAIN rc \cup {key} |-> IF k = key THEN t ELSE rc[k]],
                  processed_message_ids |-> pm \cup {id},
                  reason |-> "accepted", key |-> key, last |-> last,
                  handler |-> dispatch(content)]

\* Discord delivers message id to on_message; the handler's reply is chosen
\* among those it can send.
Deliver(id, message, again) ==
    LET r == on_message(recent_commands, processed_message_ids, id, message, clock) IN
    /\ recent_commands' = r.recent_commands
    /\ processed_message_ids' = r.processed_message_ids
    /\ \E reply \in replies(r.handler, Tail(message.content)) :
        bev' = [op |-> "on_message", id |-> id, redelivery |-> again,
                at |-> clock, reason |-> r.reason, key |-> r.key, last |-> r.last,
                handler |-> r.handler, reply |-> reply]
    /\ UNCHANGED clock
    /\ UNCHANGED <<q, botVars, nextId, popped, discarded, ev, url, volumeVars, playVars, managerVars,
                   cacheVars>>

\* A new message arrives.
OnMessage ==
    /\ Len(msgs) < MaxMsgs
    /\ \E message \in Inbound :
        /\ msgs' = Append(msgs, message)
        /\ Deliver(Len(msgs) + 1, message, FALSE)

\* The gateway delivers a message once more.
Redelivery ==
    /\ \E id \in 1..Len(msgs) : Deliver(id, msgs[id], TRUE)
    /\ UNCHANGED msgs

\* Time passes.
Pass ==
    /\ \E t \in Instants : t > clock /\ clock' = t
    /\ UNCHANGED <<recent_commands, processed_message_ids, msgs, bev>>
    /\ UNCHANGED <<q, botVars, nextId, popped, discarded, ev, url, volumeVars, playVars, managerVars,
                   cacheVars>>

MtgNext ==
    \/ OnMessage
    \/ Redelivery
    \/ Pass

MtgSpec == Init /\ [][MtgNext]_vars

-----------------------------------------------------------------------------
(* AudioPlayer's volumes (audio.py:267-281). _volumes is a dict, here the   *)
(* function from the guilds that have an entry to their volume; each       *)
(* method holds the player's RLock for its whole body.                     *)

\* audio.py:267-270.
get_volume(vs, guild_id) ==
    IF guild_id \in DOMAIN vs THEN vs[guild_id] ELSE default_volume

min(a, b) == IF b < a THEN b ELSE a

max(a, b) == IF b > a THEN b ELSE a

set_volume_unclamped(vs, guild_id, volume) ==
    [g \in DOMAIN vs \cup {guild_id} |-> IF g = guild_id THEN volume ELSE vs[g]]

\* audio.py:272-275.
set_volume(vs, guild_id, volume) ==
    [g \in DOMAIN vs \cup {guild_id} |->
        IF g = guild_id THEN max(0, min(100, volume)) ELSE vs[g]]

\* audio.py:277-280.
cleanup_guild(vs, guild_id) == [g \in DOMAIN vs \ {guild_id} |-> vs[g]]

GetVolume ==
    /\ \E g \in Guilds :
        /\ vev' = [vev EXCEPT !.op = "get_volume", !.guild = g, !.arg = 0,
                              !.ret = get_volume(volumes, g), !.pre = volumes]
    /\ UNCHANGED volumes
    /\ UNCHANGED <<q, botVars, nextId, popped, discarded, ev, url, playVars,
                   managerVars, cacheVars, mtgVars>>

SetVolume ==
    /\ \E g \in Guilds, volume \in Levels :
        /\ volumes' = set_volume(volumes, g, volume)
        /\ vev' = [vev EXCEPT !.op = "set_volume", !.guild = g, !.arg = volume,
                              !.ret = 0, !.pre = volumes,
                              !.given[g] = <<volume>>]
    /\ UNCHANGED <<q, botVars, nextId, popped, discarded, ev, url, playVars,
                   managerVars, cacheVars, mtgVars>>

CleanupGuild ==
    /\ \E g \in Guilds :
        /\ volumes' = cleanup_guild(volumes, g)
        /\ vev' = [vev EXCEPT !.op = "cleanup_guild", !.guild = g, !.arg = 0,
                              !.ret = 0, !.pre = volumes, !.given[g] = <<>>]
    /\ UNCHANGED <<q, botVars, nextId, popped, discarded, ev, url, playVars,
                   managerVars, cacheVars, mtgVars>>

VolumeNext ==
    \/ GetVolume
    \/ SetVolume
    \/ CleanupGuild

VolumeSpec == Init /\ [][VolumeNext]_vars

-----------------------------------------------------------------------------
(* The /play handler (bot.py:215-283) by its awaits, several commands in   *)
(* flight at once: each step is the stretch from the return of one awaited *)
(* call to the next await or to the handler's end.                         *)

\* What the /play handler never writes.
otherVars == <<url, volumeVars, managerVars, cacheVars, mtgVars>>

\* The handler goes on to its next await, its record now p.
Awaits(h, p) ==
    /\ plays' = [plays EXCEPT ![h] = p]
    /\ UNCHANGED <<q, spawns, nextId, ev>>

Failed_enqueued(h) ==
    /\ nextId <= MaxSongs
    /\ plays' = [plays EXCEPT ![h].pc = "done", ![h].reply = "failed"]
    /\ q' = add(q, nextId).q
    /\ nextId' = nextId + 1
    /\ UNCHANGED <<spawns, ev>>

\* bot.py:277-283: extract_song_info or _get_or_create_voice_connection raised.
Failed(h) ==
    /\ plays' = [plays EXCEPT ![h].pc = "done", ![h].reply = "failed"]
    /\ UNCHANGED <<q, spawns, nextId, ev>>

\* bot.py:262-275: _get_or_create_voice_connection returned client v.
Added(h, v) ==
    LET r == add(q, nextId)
        start == r.ret = 0 /\ ~r.q.is_playing
    IN /\ nextId <= MaxSongs
       /\ q' = r.q
       /\ spawns' = IF start THEN spawns \cup {[vc |-> v, by |-> nextId]} ELSE spawns
       /\ nextId' = nextId + 1
       /\ ev' = [NoEv EXCEPT !.op = "play", !.pre = q, !.song = nextId,
                             !.ret = r.ret, !.accepted = start]
       /\ plays' = [plays EXCEPT ![h].pc = "done", ![h].client = v,
                                 ![h].reply = IF start THEN "now playing" ELSE "added"]

\* bot.py:215-251: the command passes the checks and the handler answers that
\* it is searching.
PlayBegin ==
    /\ closing # "closed"
    /\ \E h \in Plays :
        /\ plays[h].pc = "new"
        /\ plays' = [plays EXCEPT ![h].pc = "extract", ![h].reply = "searching"]
        /\ pev' = [NoPev EXCEPT !.op = "begin", !.h = h, !.entry = voice_connections,
                             !.pre = q]
    /\ UNCHANGED <<q, botVars, nextId, popped, discarded, ev, otherVars>>

\* bot.py:255-260 and 430-464: extract_song_info returns or raises; with a song,
\* _get_or_create_voice_connection returns the registered client if it is
\* connected, else forgets it, checks the permissions and calls channel.connect.
PlayExtracted ==
    /\ \E h \in Plays, found \in BOOLEAN, permitted \in BOOLEAN :
        LET v == voice_connections IN
        /\ plays[h].pc = "extract"
        /\ IF ~found
           THEN /\ Failed(h)
                /\ UNCHANGED <<voice_connections, vcs, handlers, tasks>>
           ELSE IF v # None /\ vcs[v].connected
           THEN /\ Added(h, v)
                /\ tasks' = Dirty(tasks)
                /\ UNCHANGED <<voice_connections, vcs, handlers>>
           ELSE /\ IF v # None
                   THEN /\ handlers' = handlers \cup after_playing(vcs, v)
                        /\ vcs' = vc_disconnect(vcs, v)
                        /\ tasks' = Dirty(tasks)
                   ELSE UNCHANGED <<vcs, handlers, tasks>>
                /\ voice_connections' = None
                /\ IF ~permitted
                   THEN Failed(h)
                   ELSE Awaits(h, [plays[h] EXCEPT !.pc = "connect", !.attempt = 0,
                                                  !.tries = 1])
        /\ pev' = [op |-> "extracted", h |-> h,
                   outcome |-> IF ~found THEN "no song"
                               ELSE IF v # None /\ vcs[v].connected THEN "registered"
                               ELSE IF ~permitted THEN "denied" ELSE "connecting",
                   entry |-> voice_connections', pre |-> q]
    /\ UNCHANGED <<nvc, stopping, left_events, closing, popped, discarded, otherVars>>

\* bot.py:459-499: the awaited channel.connect of one attempt ends. It gives a
\* client only if the guild has none; it raises "already connected" if the
\* library still holds one for the guild, connected or not.
PlayConnect ==
    /\ \E h \in Plays, outcome \in {"ok", "timeout", "already", "other"} :
        LET p == plays[h]
            last == p.attempt = Attempts - 1
            existing == {o \in VCIds : vcs[o].connected}
        IN
        /\ p.pc = "connect"
        /\ CASE outcome = "ok" ->
                  /\ existing = {}
                  /\ nvc < MaxVC
                  /\ nvc' = nvc + 1
                  /\ vcs' = [vcs EXCEPT ![nvc + 1] = [NoPlayer EXCEPT !.connected = TRUE]]
                  /\ voice_connections' = nvc + 1
                  /\ Added(h, nvc + 1)
                  /\ tasks' = Dirty(tasks)
                  /\ UNCHANGED <<handlers, left_events>>
             [] outcome = "already" ->
                  /\ vcs' = [o \in VCIds |-> IF o \in existing THEN NoPlayer ELSE vcs[o]]
                  /\ handlers' = handlers \cup UNION {after_playing(vcs, o) : o \in existing}
                  /\ left_events' = left_events + Cardinality(existing)
                  /\ tasks' = IF existing = {} THEN tasks ELSE Dirty(tasks)
                  /\ IF last
                     THEN Failed(h)
                     ELSE Awaits(h, [p EXCEPT !.attempt = @ + 1, !.tries = @ + 1])
                  /\ UNCHANGED <<voice_connections, nvc>>
             [] outcome \in {"timeout", "other"} ->
                  /\ IF last
                     THEN Failed(h)
                     ELSE Awaits(h, [p EXCEPT !.pc = "sleep"])
                  /\ UNCHANGED <<voice_connections, vcs, nvc, handlers, left_events, tasks>>
        /\ pev' = [op |-> "connect", h |-> h, outcome |-> outcome,
                   entry |-> voice_connections', pre |-> q]
    /\ UNCHANGED <<stopping, closing, popped, discarded, otherVars>>

\* bot.py:478, 494, 498: asyncio.sleep(2) returns and the loop calls
\* channel.connect again.
PlayWake ==
    /\ \E h \in Plays :
        /\ plays[h].pc = "sleep"
        /\ plays' = [plays EXCEPT ![h].pc = "connect", ![h].attempt = @ + 1,
                                  ![h].tries = @ + 1]
        /\ pev' = [NoPev EXCEPT !.op = "wake", !.h = h, !.entry = voice_connections,
                             !.pre = q]
    /\ UNCHANGED <<q, botVars, nextId, popped, discarded, ev, otherVars>>

PlayNext ==
    \/ PlayBegin
    \/ PlayExtracted
    \/ PlayConnect
    \/ PlayWake
    \/ VoiceStateUpdate
    \/ PlayNextStart
    \/ SourceCreated
    \/ SongFinished

\* /play commands, the playback they start and the gateway's reports that the
\* bot left its channel.
PlaySpec == Init /\ [][PlayNext]_vars

-----------------------------------------------------------------------------
(* C1: every next() returns the song added earliest among those pending:   *)
(* the songs returned so far followed by the pending ones are the songs    *)
(* added (and not cleared) in insertion order; next() on an empty queue    *)
(* returns None, otherwise the head of pending.                            *)
C1_Fifo ==
    /\ popped \o q.songs = Kept
    /\ ev.op = "next" =>
        /\ (ev.ret = None) <=> (ev.pre.songs = <<>>)
        /\ ev.ret # None =>
            /\ ev.ret = Head(ev.pre.songs)
            /\ \A s \in Range(ev.pre.songs) : ev.ret <= s
            /\ q.songs = Tail(ev.pre.songs)

\* All MaxSongs songs were added and all returned, in order, and a further
\* next() returned nothing.
C1_Witness ==
    /\ ev.op = "next"
    /\ ev.ret = None
    /\ discarded = {}
    /\ popped = [i \in 1..MaxSongs |-> i]
    /\ q.songs = <<>>

Count(seq, x) == Cardinality({i \in 1..Len(seq) : seq[i] = x})

(* C2: no song is lost or duplicated while /play handlers add and the      *)
(* playback path pops: every song added so far is exactly once in pending, *)
(* or was returned by exactly one next(), or was dropped by a clear();     *)
(* pending holds nothing else.                                             *)
C2_NoLossNoDup ==
    /\ \A s \in 1..(nextId - 1) :
        Count(q.songs, s) + Count(popped, s) + (IF s \in discarded THEN 1 ELSE 0) = 1
    /\ Range(q.songs) \cup Range(popped) \subseteq 1..(nextId - 1)

\* All songs were added; one was popped, one cleared and one is pending while a
\* play_next task for it is scheduled.
C2_Witness ==
    /\ nextId > MaxSongs
    /\ popped # <<>>
    /\ discarded # {}
    /\ q.songs # <<>>
    /\ spawns # {}

(* C3: clear() leaves pending empty, current null and the three flags      *)
(* false, whatever the state it is called in.                              *)
C3_ClearResets ==
    ev.op = "clear" =>
        /\ q.songs = <<>>
        /\ q.current = None
        /\ q.is_playing = FALSE
        /\ q.is_paused = FALSE
        /\ q.should_skip = FALSE

\* clear() was called on a paused queue with pending songs and the skip flag set.
C3_Witness ==
    /\ ev.op = "clear"
    /\ ev.pre.songs # <<>>
    /\ ev.pre.current # None
    /\ ev.pre.is_playing
    /\ ev.pre.is_paused
    /\ ev.pre.should_skip
    /\ q = MusicQueue

(* C4: a chain of play_next invocations that no other handler interleaved  *)
(* with binds the first song that resolves: when it hands a song to the    *)
(* sink, that song is current, is_playing is true, the songs it tried      *)
(* before are exactly the ones ahead of it in the queue the chain started  *)
(* with and are gone from pending; and every failed attempt left current   *)
(* null and is_playing false before play_next was called again.            *)
C4_Recovery ==
    /\ (ev.op = "bound" /\ ev.clean) =>
        /\ q.current = ev.song
        /\ q.is_playing
        /\ vcs[ev.vc].state = "playing"
        /\ vcs[ev.vc].song = ev.song
        /\ ev.start = ev.tried \o <<ev.song>> \o q.songs
        /\ Range(ev.tried) \cap Range(q.songs) = {}
    /\ ev.op = "retry" =>
        /\ ev.mid.current = None
        /\ ev.mid.is_playing = FALSE

\* The first two of three songs failed and the third was handed to the sink.
C4_Witness ==
    /\ ev.op = "bound"
    /\ ev.clean
    /\ Len(ev.start) = 3
    /\ Len(ev.tried) = 2
    /\ q.current = ev.start[3]
    /\ q.is_playing

(* C5: the song-finished handler clears current and is_playing, leaves     *)
(* should_skip false and goes on into play_next: the head of pending       *)
(* becomes current on a connected sink (none pending: the guild is idle).  *)
(* The queue it leaves is fixed by pending, is_paused and the sink alone,  *)
(* not by should_skip.                                                     *)
C5_FinishedContinues ==
    ev.op = "finished" =>
        /\ ev.mid.current = None
        /\ ev.mid.is_playing = FALSE
        /\ q.should_skip = FALSE
        /\ q.is_paused = ev.pre.is_paused
        /\ IF ev.pre.songs = <<>>
           THEN q.songs = <<>> /\ q.current = None /\ ~q.is_playing
           ELSE /\ q.songs = Tail(ev.pre.songs)
                /\ IF ev.connected
                   THEN /\ q.current = Head(ev.pre.songs)
                        /\ q.is_playing
                        /\ \E t \in tasks : t.song = Head(ev.pre.songs)
                   ELSE q.current = None /\ ~q.is_playing

\* Song 1 was playing with 2 and 3 pending; it was skipped, its completion was
\* handled with should_skip set, and 2 is the next song.
C5_Witness ==
    /\ ev.op = "finished"
    /\ ev.song = 1
    /\ ev.pre.should_skip
    /\ ev.pre.songs = <<2, 3>>
    /\ q.current = 2
    /\ q.songs = <<3>>
    /\ ~q.should_skip

(* C6: a song-finished handler that runs after the queue was cleared by    *)
(* /stop or by a disconnect pops no song and changes neither current nor   *)
(* is_playing.                                                             *)
C6_StaleHandlerInert ==
    (ev.op = "finished" /\ ev.stale) =>
        /\ ev.got = <<>>
        /\ q.songs = ev.pre.songs
        /\ q.current = ev.pre.current
        /\ q.is_playing = ev.pre.is_playing

\* A player holds a song: it was handed the song's source and has neither
\* finished nor been stopped.
SongBound == \E v \in VCIds : vcs[v].state # "idle"

(* C7: current is non-null if and only if a song is actively bound to the  *)
(* voice connection.                                                       *)
C7_CurrentIffBound == (q.current # None) <=> SongBound

Idle == q.current = None /\ ~q.is_playing /\ ~q.is_paused

Playing == q.current # None /\ q.is_playing /\ ~q.is_paused

Paused == q.current # None /\ q.is_paused

(* C8: (current, is_playing, is_paused) is always Idle, Playing or Paused. *)
C8_Shapes == Idle \/ Playing \/ Paused

(* C9: after a skip is accepted while a song is current, the driver moves  *)
(* past that song by itself, whatever the playback status at the skip:     *)
(* right after the skip some step of the driver (the player ending, the    *)
(* completion handler, a play_next step) can be taken with no further      *)
(* command.                                                                *)
C9_SkipAdvances ==
    (ev.op = "skip" /\ ev.accepted /\ ev.song # None) => ENABLED DriverNext

(* C10: when the sink is not connected as play_next has popped a song,     *)
(* play_next clears current and is_playing and ends: it pops that one song *)
(* only, the songs behind it stay pending, and no attempt is started.      *)
C10_DisconnectedEnds ==
    (ev.op \in {"start", "finished", "retry"} /\ ev.got # <<>> /\ ~ev.connected) =>
        /\ q.current = None
        /\ q.is_playing = FALSE
        /\ ev.got = <<Head(ev.pre.songs)>>
        /\ q.songs = Tail(ev.pre.songs)
        /\ Cardinality(tasks) = ev.ntasks

\* play_next popped a song on a disconnected sink with more songs pending.
C10_Witness ==
    /\ ev.op \in {"start", "finished", "retry"}
    /\ ev.got # <<>>
    /\ ~ev.connected
    /\ Len(ev.pre.songs) >= 2
    /\ q.songs # <<>>

(* C11 as stated: when the sink is not connected as play_next has popped a  *)
(* song, play_next recurses as it does after a failed source creation, so  *)
(* every pending song is popped in turn on the disconnected sink.          *)
C11_DisconnectedRecurses ==
    (ev.op \in {"start", "finished", "retry"} /\ ev.got # <<>> /\ ~ev.connected) =>
        /\ q.current = None
        /\ q.is_playing = FALSE
        /\ ev.got = ev.pre.songs
        /\ q.songs = <<>>

(* C11, amended: when the sink is not connected as play_next has popped a  *)
(* song, play_next clears current and is_playing and returns: the popped   *)
(* song is dropped, no source is created for it and the song behind it is  *)
(* not tried. play_next is called again only after a failed source         *)
(* creation (or a failed voice_client.play), and that call pops the head   *)
(* of what is pending, if anything.                                        *)
C11_DisconnectedReturns ==
    /\ (ev.op \in {"start", "finished", "retry"} /\ ev.got # <<>> /\ ~ev.connected) =>
        /\ Len(ev.got) = 1
        /\ q.current = None
        /\ q.is_playing = FALSE
        /\ \A s \in Range(ev.got) : s \notin Range(q.songs)
        /\ \A s \in Range(ev.got) : \A t \in tasks : t.song # s
        /\ \A s \in Range(q.songs) : s \notin Range(popped)
    /\ ev.op = "retry" =>
        ev.got = IF ev.mid.songs = <<>> THEN <<>> ELSE <<Head(ev.mid.songs)>>

\* A source creation failed after the sink was lost: play_next was called again,
\* popped the next song, found the sink not connected and returned with a song
\* still pending.
C11_Witness ==
    /\ ev.op = "retry"
    /\ ~ev.connected
    /\ ev.got # <<>>
    /\ ev.song # None
    /\ q.songs # <<>>
    /\ q.current = None

(* C12: play_next terminates. On a connected sink where every source       *)
(* creation fails, a chain of play_next invocations that no enqueue or     *)
(* other handler interleaved with has, when it ends, tried every song that *)
(* was pending at its start exactly once and in order, and leaves pending  *)
(* empty, current null and is_playing false; every recursion shortens      *)
(* pending and no song is tried twice; play_next invoked on an empty queue *)
(* pops nothing, leaves current null and is_playing false and awaits       *)
(* nothing. And the draining ends: from some point on no invocation is     *)
(* scheduled or suspended and the queue is drained.                        *)
C12_Terminates ==
    /\ [](/\ (ev.op = "retry" /\ ev.clean /\ ev.connected /\ ~ev.resolving) =>
               /\ ev.tried = ev.start
               /\ q.songs = <<>>
               /\ q.current = None
               /\ q.is_playing = FALSE
          /\ ev.op = "retry" =>
               /\ \A i, j \in 1..Len(ev.tried) : ev.tried[i] = ev.tried[j] => i = j
               /\ ev.resolving => Len(q.songs) < Len(ev.pre.songs)
          /\ ((ev.op = "retry" /\ ev.mid.songs = <<>>)
                 \/ (ev.op = "start" /\ ev.pre.songs = <<>>)) =>
               /\ ev.got = <<>>
               /\ ~ev.resolving
               /\ q.songs = <<>>
               /\ q.current = None
               /\ q.is_playing = FALSE
               /\ Cardinality(tasks) = ev.ntasks)
    /\ <>[](/\ tasks = {}
            /\ spawns = {}
            /\ q.songs = <<>>
            /\ q.current = None
            /\ q.is_playing = FALSE)

\* MaxSongs songs were pending when the chain started; all failed, one after the
\* other, and the last play_next found the queue empty.
C12_Witness ==
    /\ ev.op = "retry"
    /\ ev.clean
    /\ ev.connected
    /\ ~ev.resolving
    /\ Len(ev.start) = MaxSongs
    /\ ev.tried = ev.start
    /\ ev.mid.songs = <<>>
    /\ q.songs = <<>>

\* The labels of a hostname: what stands between its dots.
RECURSIVE labels(_)
labels(str) ==
    IF str = <<>> THEN << <<>> >>
    ELSE LET rest == labels(Tail(str)) IN
         IF Head(str) = Dot
         THEN << <<>> >> \o rest
         ELSE << <<Head(str)>> \o Head(rest) >> \o Tail(rest)

\* The locator's scheme is http or https and its host is an allow-listed domain
\* or a subdomain of one.
OnAllowList(u) ==
    /\ u.scheme \in {"http", "https"}
    /\ \E d \in safe_domains :
         LET h == labels(u.hostname)
             l == labels(d)
         IN /\ Len(h) >= Len(l)
            /\ \A i \in 1..Len(l) : h[Len(h) - Len(l) + i] = l[i]

(* C13: a song whose locator is not on the allow-list is never passed to   *)
(* the extractor and never handed to the sink: its source creation fails   *)
(* without the extractor being called, current and is_playing are cleared  *)
(* and play_next goes on to the next pending song.                         *)
C13_UnsafeNeverResolved ==
    /\ \A v \in VCIds : vcs[v].song # None => OnAllowList(url[vcs[v].song])
    /\ (ev.op \in {"retry", "bound"} /\ ev.extracted) => OnAllowList(url[ev.song])
    /\ (ev.op \in {"retry", "bound"} /\ ~OnAllowList(url[ev.song])) =>
        /\ ev.op = "retry"
        /\ ~ev.extracted
        /\ ev.mid.current = None
        /\ ev.mid.is_playing = FALSE
        /\ ev.got = IF ev.mid.songs = <<>> THEN <<>> ELSE <<Head(ev.mid.songs)>>
        /\ (ev.connected /\ ev.mid.songs # <<>>) =>
            /\ q.current = Head(ev.mid.songs)
            /\ \E t \in tasks : t.song = q.current

\* A song with an http(s) locator on a host that only ends like an allow-listed
\* one was rejected, and the song behind it is being resolved.
C13_Witness ==
    /\ ev.op = "retry"
    /\ url[ev.song].scheme = "https"
    /\ ~OnAllowList(url[ev.song])
    /\ ~ev.extracted
    /\ ev.resolving
    /\ q.current # None
    /\ OnAllowList(url[q.current])

(* C14: the sink's completion callback does not touch the queue: the step  *)
(* in which the player's thread calls after_playing leaves the queue (and  *)
(* the songs popped, and the play_next invocations) as they are and        *)
(* schedules one song-finished handler; the queue changes for the finished *)
(* song only when that handler runs on the event loop.                     *)
C14_CallbackOnlySchedules ==
    [][ev'.op = "ended" =>
          /\ q' = q
          /\ popped' = popped
          /\ discarded' = discarded
          /\ Cardinality(tasks') = Cardinality(tasks)
          /\ spawns' = spawns
          /\ handlers \subseteq handlers'
          /\ Cardinality(handlers') = Cardinality(handlers) + 1
          /\ \A h \in handlers' \ handlers : h.song = ev'.song]_vars

\* A song has ended and its handler is scheduled but has not run: the queue
\* still shows the song as current.
C14_Witness ==
    /\ ev.op = "ended"
    /\ \E h \in handlers : h.song = ev.song
    /\ q.current = ev.song
    /\ q.is_playing
    /\ q.songs # <<>>

(* C17: when the /stop handler has completed, when the bot's own           *)
(* voice-disconnect event has been handled, and when close() has cleared,  *)
(* the guild's queue is empty with current null and the three flags false  *)
(* and the guild has no entry in voice_connections; after close() it stays *)
(* so.                                                                     *)
C17_ClearedAfterStop ==
    /\ ev.op \in {"stop", "stop_keyerror", "disconnect", "close"} =>
        /\ q = MusicQueue
        /\ voice_connections = None
    /\ closing = "closed" =>
        /\ q = MusicQueue
        /\ voice_connections = None

(* C15: /pause changes the queue only when the guild is Playing (current   *)
(* non-null, is_playing, not paused), and then only sets is_paused: the    *)
(* guild is Paused; in any other state it leaves pending, current and the  *)
(* three flags as they were.                                               *)
C15_PauseOnlyFromPlaying ==
    ev.op = "pause" =>
        IF ev.pre.current # None /\ ev.pre.is_playing /\ ~ev.pre.is_paused
        THEN /\ q = [ev.pre EXCEPT !.is_paused = TRUE]
             /\ Paused
        ELSE q = ev.pre

\* /pause was accepted while a song was playing with another pending: the queue
\* is Paused and the sink's player is paused.
C15_Witness ==
    /\ ev.op = "pause"
    /\ ev.accepted
    /\ ev.pre.current # None
    /\ ~ev.pre.is_paused
    /\ q.is_paused
    /\ q.songs # <<>>
    /\ voice_connections # None
    /\ vc_is_paused(vcs, voice_connections)
    /\ vcs[voice_connections].song = q.current

(* C16: /resume changes the queue only when the guild is Paused (current   *)
(* non-null, is_paused), and then only clears is_paused: the guild is      *)
(* Playing; in any other state it is rejected and leaves pending, current  *)
(* and the three flags as they were.                                       *)
C16_ResumeOnlyFromPaused ==
    ev.op = "resume" =>
        IF ev.pre.current # None /\ ev.pre.is_paused
        THEN /\ q = [ev.pre EXCEPT !.is_paused = FALSE]
             /\ Playing
        ELSE /\ q = ev.pre
             /\ ~ev.accepted

(* C18: add appends the song at the tail of pending in every state and     *)
(* returns the number of songs that were pending before the call, which is *)
(* the song's zero-based index in pending; current and the three flags are *)
(* left as they were.                                                      *)
C18_AddAppends ==
    ev.op = "add" =>
        /\ q.songs = ev.pre.songs \o <<ev.song>>
        /\ ev.ret = Len(ev.pre.songs)
        /\ q.songs[ev.ret + 1] = ev.song
        /\ q.current = ev.pre.current
        /\ q.is_playing = ev.pre.is_playing
        /\ q.is_paused = ev.pre.is_paused
        /\ q.should_skip = ev.pre.should_skip

\* A song was added behind a pending one while a song was current, paused and
\* marked to be skipped.
C18_Witness ==
    /\ ev.op = "add"
    /\ ev.pre.songs # <<>>
    /\ ev.ret = Len(q.songs) - 1
    /\ q.current # None
    /\ q.is_playing
    /\ q.is_paused
    /\ q.should_skip

(* C19: get_queue is idempotent. Whatever the order of the calls, all the  *)
(* calls for one guild return one and the same instance, the one the       *)
(* guild's first call created; a call for a guild that has its queue       *)
(* creates nothing and leaves the contents of every queue as they are; a   *)
(* first call creates one empty queue and leaves the others as they are;   *)
(* different guilds get different instances.                               *)
C19_GetQueueIdempotent ==
    /\ \A g \in Guilds :
        /\ Cardinality(mev.returned[g]) <= 1
        /\ queues[g] # None => mev.returned[g] = {queues[g]}
        /\ queues[g] = None => mev.returned[g] = {}
    /\ \A g, h \in Guilds : g # h => mev.returned[g] \cap mev.returned[h] = {}
    /\ mev.op = "get_queue" =>
        /\ mev.ret = queues[mev.guild]
        /\ IF mev.had
           THEN objs = mev.pre
           ELSE /\ objs = Append(mev.pre, MusicQueue)
                /\ mev.ret = Len(objs)

\* Two guilds have their queues, with different songs pending, and a further
\* get_queue returned the second guild's queue with its song in it.
C19_Witness ==
    /\ mev.op = "get_queue"
    /\ mev.had
    /\ objs[mev.ret].songs # <<>>
    /\ \E g \in Guilds :
        /\ g # mev.guild
        /\ queues[g] # None
        /\ queues[g] # mev.ret
        /\ objs[queues[g]].songs # <<>>
        /\ objs[queues[g]].songs # objs[mev.ret].songs

(* C20: the cache never holds more entries than its configured maximum     *)
(* (at least 1), whatever get, set, get_or_set and clear calls were made   *)
(* and however they interleave; and it holds one entry per key.            *)
C20_SizeBounded ==
    /\ Len(cache) <= max_size
    /\ \A i, j \in 1..Len(cache) : cache[i].key = cache[j].key => i = j

\* A get_or_set stored its fetched value in a full cache while another
\* get_or_set was waiting for its factory: one entry was evicted and the cache
\* is full again.
C20_Witness ==
    /\ cev.op = "get_or_set_set"
    /\ \E k \in Keys : calls[k] > 0
    /\ cev.evicted # None
    /\ Len(cache) = max_size
    /\ stats.evictions > 0
    /\ \E i \in 1..Len(cache) : cache[i].key = cev.key

\* The keys the cache holds.
keys(items) == {items[i].key : i \in 1..Len(items)}

(* C21: when a cache of max size M holds M keys after M calls, none of    *)
(* them a read, and no entry has expired, the set of one more key evicts   *)
(* exactly one entry: the eviction counter is 1, the size is M, and the    *)
(* key evicted is the first one inserted, whose last access is the oldest. *)
C21_OldestEvicted ==
    [][(/\ cev.n = max_size
        /\ Len(cache) = max_size
        /\ stats.hits = 0
        /\ stats.misses = 0
        /\ cleanup_expired(cache, now, ttl_seconds) = cache
        /\ cev'.op = "set"
        /\ cev'.n = max_size + 1
        /\ cev'.key \notin keys(cache))
       => /\ stats.evictions = 0
          /\ stats'.evictions = 1
          /\ Len(cache') = max_size
          /\ cev'.evicted = cache[1].key
          /\ \A i \in 1..Len(cache) :
                /\ cache[1].last_accessed <= cache[i].last_accessed
                /\ cache[1].created_at <= cache[i].created_at
          /\ keys(cache') = (keys(cache) \ {cache[1].key}) \cup {cev'.key}]_vars

\* Three distinct keys were set in a cache of size two and nothing else was
\* called: the third set evicted one key.
C21_Witness ==
    /\ max_size > 1
    /\ cev.op = "set"
    /\ cev.n = max_size + 1
    /\ cev.evicted # None
    /\ cev.found = "new"
    /\ stats = [hits |-> 0, misses |-> 0, evictions |-> 1]
    /\ Len(cache) = max_size

(* C22: a get of a key whose entry was written more than the lifetime     *)
(* before the call reads the clock returns nothing, counts one miss and no *)
(* hit, and the entry is gone, however often the entry was read before.    *)
C22_ExpiredIsMiss ==
    [][(/\ cev'.op = "get"
        /\ cev'.n = cev.n + 1
        /\ \E i \in 1..Len(cache) :
              /\ cache[i].key = cev'.key
              /\ now' - cache[i].created_at > ttl_seconds)
       => /\ cev'.ret = None
          /\ cev'.found \in {"swept", "expired"}
          /\ stats'.misses = stats.misses + 1
          /\ stats'.hits = stats.hits
          /\ stats'.evictions = stats.evictions
          /\ cev'.key \notin keys(cache')]_vars

\* Three calls were made: a set, a get that hit, and a get that found the
\* entry expired and missed.
C22_Witness ==
    /\ cev.op = "get"
    /\ cev.n = 3
    /\ cev.found \in {"swept", "expired"}
    /\ cev.ret = None
    /\ stats = [hits |-> 1, misses |-> 1, evictions |-> 0]
    /\ cev.key \notin keys(cache)

(* C23: a get_or_set whose fetch fails raises to its caller and stores      *)
(* nothing: its lookup only drops expired entries, and the failure changes  *)
(* neither the entries nor the counters. A get_or_set whose fetch succeeds, *)
(* after a failure or not, returns the fetched value and stores it under    *)
(* the key, and a get of the key that follows returns that value.           *)
C23_FailedFetchNotStored ==
    [][/\ cev'.op = "get_or_set_raised"
          => /\ cache' = cache
             /\ stats' = stats
             /\ cev'.ret = None
       /\ (cev'.op = "get_or_set_get" /\ cev'.n = cev.n + 1)
          => /\ stats'.evictions = stats.evictions
             /\ keys(cache') \subseteq keys(cache)
             /\ \A j \in 1..Len(cache') :
                   \/ \E i \in 1..Len(cache) : cache'[j] = cache[i]
                   \/ /\ cache'[j].key = cev'.key
                      /\ cev'.found = "fresh"
                      /\ \E i \in 1..Len(cache) :
                            /\ cache[i].key = cev'.key
                            /\ cache'[j].value = cache[i].value
                            /\ cache'[j].created_at = cache[i].created_at
             /\ \A i \in 1..Len(cache) :
                   cache[i].key \notin keys(cache')
                       => now' - cache[i].created_at > ttl_seconds
       /\ (cev'.op = "get_or_set_set" /\ cev' # cev)
          => /\ cev'.ret = cev'.value
             /\ \E j \in 1..Len(cache') :
                   /\ cache'[j].key = cev'.key
                   /\ cache'[j].value = cev'.value
                   /\ cache'[j].created_at = now'
       /\ (/\ cev.op = "get_or_set_set"
           /\ cev'.op = "get"
           /\ cev'.n = cev.n + 1
           /\ cev'.key = cev.key
           /\ \E i \in 1..Len(cache) :
                 /\ cache[i].key = cev.key
                 /\ now' - cache[i].created_at <= ttl_seconds)
          => /\ cev'.ret = cev.value
             /\ cev'.found = "fresh"
             /\ stats'.hits = stats.hits + 1]_vars

\* A get_or_set stored the value it fetched for a key whose fetch had failed
\* in an earlier call; the key had no entry until then.
C23_Witness ==
    /\ cev.op = "get_or_set_set"
    /\ cev.raised = cev.key
    /\ cev.found = "new"
    /\ cev.ret = cev.value
    /\ cev.value # None
    /\ \A k \in Keys : calls[k] = 0
    /\ \E j \in 1..Len(cache) : cache[j].key = cev.key /\ cache[j].value = cev.value

(* C24: a get_or_set whose key has an unexpired entry returns the stored    *)
(* value and does not invoke the fetch, whatever the stored value is; the   *)
(* fetch is invoked only when the key has no entry or an expired one.       *)
C24_FetchOnlyWhenAbsent ==
    [][(cev'.op = "get_or_set_get" /\ cev'.n = cev.n + 1)
       => /\ cev'.found = "fresh"
             => /\ calls' = calls
                /\ \E i \in 1..Len(cache) :
                      cache[i].key = cev'.key /\ cev'.ret = cache[i].value
          /\ calls' # calls
             => cev'.found \in {"absent", "swept", "expired"}]_vars

(* C25: the cache's methods exclude one another, so between the lookup and  *)
(* the store of a get_or_set no other cache call takes effect: while a      *)
(* get_or_set waits for its fetch, the only call that acts on the cache is  *)
(* that get_or_set's own store or failure.                                  *)
C25_MutuallyExclusive ==
    [][((\E k \in Keys : calls[k] > 0) /\ cev' # cev)
       => /\ cev'.op \in {"get_or_set_set", "get_or_set_raised"}
          /\ \A k \in Keys : calls[k] = IF k = cev'.key THEN 1 ELSE 0]_vars

\* The step is a store of a new key into a cache that is full after the
\* sweep of expired entries.
StoresNewAtCapacity ==
    /\ cev'.op \in {"set", "get_or_set_set"}
    /\ cev'.key \notin keys(cleanup_expired(cache, now, ttl_seconds))
    /\ Len(cleanup_expired(cache, now, ttl_seconds)) >= max_size

\* The entries the step removed that were within their lifetime when the
\* call read the clock.
RemovedUnexpired ==
    {i \in 1..Len(cache) :
        /\ cache[i].key \notin keys(cache')
        /\ ~(now' - cache[i].created_at > ttl_seconds)}

(* C26 as stated: an entry is evicted only by the store of a new key into   *)
(* a cache that is full after the sweep; get, clear, a store to an existing *)
(* key and a store below capacity never remove an unexpired entry and never *)
(* count an eviction, and removal by expiry is not counted as an eviction.  *)
C26_OnlyStoreRemoves ==
    [][cev' # cev
       => /\ stats'.evictions =
                stats.evictions + (IF StoresNewAtCapacity THEN 1 ELSE 0)
          /\ ~StoresNewAtCapacity => RemovedUnexpired = {}
          /\ \A i \in RemovedUnexpired : cache[i].key = cev'.evicted]_vars

(* C26 amended: as stated for get and the stores; clear removes every       *)
(* entry, expired or not, and counts no eviction.                           *)
C26_OnlyStoreEvicts ==
    [][cev' # cev
       => /\ stats'.evictions =
                stats.evictions + (IF StoresNewAtCapacity THEN 1 ELSE 0)
          /\ (~StoresNewAtCapacity /\ cev'.op # "clear") => RemovedUnexpired = {}
          /\ cev'.op = "clear" => cache' = <<>>
          /\ StoresNewAtCapacity
             => /\ cev'.evicted # None
                /\ \A i \in RemovedUnexpired : cache[i].key = cev'.evicted]_vars

\* In a cache of size one a key was set and read, and the set of a second
\* key evicted it: the read removed nothing, the store counted one eviction.
C26_Witness ==
    /\ cev.op = "set"
    /\ cev.n = 3
    /\ cev.found = "new"
    /\ cev.evicted # None
    /\ stats = [hits |-> 1, misses |-> 0, evictions |-> 1]
    /\ Len(cache) = max_size

(* C27: clear removes every entry and leaves the hit, miss and eviction     *)
(* counters as they were; a get of any key from the empty cache is a miss.  *)
C27_ClearKeepsCounters ==
    [][/\ (cev'.op = "clear" /\ cev'.n = cev.n + 1)
          => /\ cache' = <<>>
             /\ stats' = stats
       /\ (/\ cache = <<>>
           /\ cev'.op \in {"get", "get_or_set_get"}
           /\ cev'.n = cev.n + 1)
          => /\ cev'.ret = None
             /\ cev'.found = "absent"
             /\ cache' = <<>>
             /\ stats' = [stats EXCEPT !.misses = @ + 1]]_vars

\* A cache that held an entry and had counted a hit was cleared: it is empty
\* and the hit is still counted.
C27_Witness ==
    /\ cev.op = "clear"
    /\ cev.found = "entries"
    /\ cache = <<>>
    /\ stats.hits > 0

\* The step delivered a message that is not bot-authored, starts with the
\* prefix and was not processed before, and its (author, text) pair was
\* accepted before.
Resubmitted ==
    /\ bev' # bev
    /\ ~msgs'[bev'.id].bot
    /\ startswith(msgs'[bev'.id].content, command_prefix)
    /\ bev'.id \notin processed_message_ids
    /\ <<msgs'[bev'.id].author, normalized(Tail(msgs'[bev'.id].content))>>
          \in DOMAIN recent_commands

\* How long ago the delivered message's pair was last accepted.
SinceAccepted ==
    clock - recent_commands[<<msgs'[bev'.id].author,
                              normalized(Tail(msgs'[bev'.id].content))>>]

(* C28: a (user, normalized text) pair submitted again less than 1.5 s      *)
(* after it was last accepted is rejected and no handler runs; submitted    *)
(* 1.5 s or more after, it is accepted and handled. Texts that differ only  *)
(* in letter case or in runs of blanks are the same pair.                   *)
C28_SuppressedWithinWindow ==
    [][/\ Resubmitted
          => IF SinceAccepted < Window
             THEN /\ bev'.reason = "duplicate"
                  /\ bev'.handler = "none"
                  /\ bev'.reply = "none"
                  /\ recent_commands' = recent_commands
                  /\ processed_message_ids' = processed_message_ids
             ELSE /\ bev'.reason = "accepted"
                  /\ bev'.handler # "none"
                  /\ bev'.reply # "none"
                  /\ bev'.id \in processed_message_ids'
       /\ \A i, j \in 1..Len(msgs) :
             (/\ startswith(msgs[i].content, command_prefix)
              /\ startswith(msgs[j].content, command_prefix)
              /\ split(lower(Tail(msgs[i].content)))
                    = split(lower(Tail(msgs[j].content))))
             => normalized(Tail(msgs[i].content))
                  = normalized(Tail(msgs[j].content))]_vars

(* C29: a message whose identifier was accepted is never processed again:   *)
(* every later delivery of it, however late, runs no handler, sends nothing *)
(* and changes neither the recency map nor the set of seen identifiers.     *)
C29_RedeliveryIsNoOp ==
    [][(bev' # bev /\ bev'.id \in processed_message_ids)
       => /\ bev'.reason = "seen"
          /\ bev'.handler = "none"
          /\ bev'.reply = "none"
          /\ recent_commands' = recent_commands
          /\ processed_message_ids' = processed_message_ids]_vars

\* An accepted message was delivered again after the suppression window of
\* its pair had passed, and nothing was done.
C29_Witness ==
    /\ bev.redelivery
    /\ bev.reason = "seen"
    /\ bev.id \in processed_message_ids
    /\ bev.at - recent_commands[<<msgs[bev.id].author,
                                  normalized(Tail(msgs[bev.id].content))>>] >= Window

(* C30: every command the bot accepts (from a non-bot author, starting with *)
(* the prefix, passing duplicate suppression) is answered with at least one *)
(* message to the channel, a result or an error message; a delivery that    *)
(* sends nothing was bot-authored, without the prefix, or suppressed.       *)
C30_AcceptedIsAnswered ==
    /\ bev.reason = "accepted" => bev.reply \in {"result", "error"}
    /\ (bev.op = "on_message" /\ bev.reply = "none")
       => bev.reason \in {"bot", "no prefix", "seen", "duplicate"}

\* The step is a completed get: a call of get, or the get inside get_or_set.
IsGet == cev'.n = cev.n + 1 /\ cev'.op \in {"get", "get_or_set_get"}

(* C34: every completed get (the one inside get_or_set included) adds one  *)
(* to exactly one of hits and misses, and nothing else changes either      *)
(* count, so hits + misses is the number of gets made; a hit adds one to   *)
(* the entry's access count and sets its last access to the time of the    *)
(* call, leaving its creation time and every other entry as they were; a   *)
(* miss changes no entry that survives it.                                 *)
C34_GetCountsOnce ==
    [][/\ IsGet =>
            \/ /\ stats'.hits = stats.hits + 1
               /\ stats'.misses = stats.misses
               /\ cev'.found = "fresh"
               /\ LET i == index(cache, cev'.key)
                      j == index(cache', cev'.key)
                  IN /\ i # 0 /\ j # 0
                     /\ cache'[j] = [cache[i] EXCEPT !.access_count = @ + 1,
                                                     !.last_accessed = now']
                     /\ cache'[j].created_at = cache[i].created_at
                     /\ \A k \in 1..Len(cache') :
                            k # j => \E l \in 1..Len(cache) : cache[l] = cache'[k]
            \/ /\ stats'.misses = stats.misses + 1
               /\ stats'.hits = stats.hits
               /\ cev'.found # "fresh"
               /\ \A k \in 1..Len(cache') :
                      \E l \in 1..Len(cache) : cache[l] = cache'[k]
       /\ ~IsGet => /\ stats'.hits = stats.hits
                    /\ stats'.misses = stats.misses]_vars

\* A get has just hit an entry a tick after it was created; with the counts of
\* the two gets made so far, a miss and this hit.
C34_Witness ==
    /\ cev.op = "get"
    /\ cev.found = "fresh"
    /\ stats.hits = 1 /\ stats.misses = 1
    /\ LET i == index(cache, cev.key)
       IN /\ i # 0
          /\ cache[i].access_count = 2
          /\ cache[i].last_accessed = cache[i].created_at + 1

\* The step is a completed get or set, alone or inside get_or_set.
IsGetOrSet ==
    /\ cev'.op \in {"get", "set", "get_or_set_get", "get_or_set_set"}
    /\ cev' # cev \/ calls' # calls

(* C35 as claimed: right after a get or set completes, no entry of the     *)
(* store is older than the TTL at the time of completion.                  *)
C35_NoneExpiredOnReturn ==
    [][IsGetOrSet =>
           \A i \in 1..Len(cache') : now' - cache'[i].created_at <= ttl_seconds]_vars

(* C35: a get or set purges every entry, of whatever key, that is older    *)
(* than the TTL when the call reads the clock for its sweep: right after   *)
(* the call no entry of the store was older than the TTL at that reading.  *)
(* An entry as old as the TTL exactly when get returns is not expired: get *)
(* returns its value.                                                      *)
C35_SweptOnEntry ==
    [][IsGetOrSet =>
           /\ \A i \in 1..Len(cache') : now - cache'[i].created_at <= ttl_seconds
           /\ \A i \in 1..Len(cache) :
                  (/\ cev'.op \in {"get", "get_or_set_get"}
                   /\ cache[i].key = cev'.key
                   /\ now' - cache[i].created_at = ttl_seconds)
                  => /\ cev'.found = "fresh"
                     /\ cev'.ret = cache[i].value
                     /\ index(cache', cev'.key) # 0]_vars

\* A get has just returned an entry exactly as old as the TTL, after time has
\* passed.
C35_Witness ==
    /\ cev.op = "get"
    /\ cev.found = "fresh"
    /\ now > 0
    /\ LET i == index(cache, cev.key)
       IN /\ i # 0
          /\ now - cache[i].created_at = ttl_seconds
          /\ cev.ret = cache[i].value

\* The step is a completed set, alone or inside get_or_set.
IsSet ==
    /\ cev'.op \in {"set", "get_or_set_set"}
    /\ cev' # cev \/ calls' # calls

(* C36 as claimed: a set on a key that has an entry leaves the size of the *)
(* store as it was.                                                        *)
C36_OverwriteKeepsSize ==
    [][(IsSet /\ index(cache, cev'.key) # 0) => Len(cache') = Len(cache)]_vars

(* C36: set(k, v) on a key that has an entry replaces it by a fresh entry  *)
(* holding v, created at the time of the set, however old the entry was;   *)
(* it evicts nothing and adds no entry (the entries left are k's and the   *)
(* others that had not expired, unchanged). A get of a key whose entry is  *)
(* not older than the TTL, counted from its creation, returns the entry's  *)
(* value: so get(k) returns v for a full TTL from the overwrite while the  *)
(* entry is neither evicted nor cleared.                                   *)
C36_OverwriteIsFresh ==
    [][/\ (IsSet /\ index(cache, cev'.key) # 0) =>
            LET j == index(cache', cev'.key)
            IN /\ j # 0
               /\ cache'[j] = CacheItem(cev'.key, cev'.value, now')
               /\ cev'.evicted = None
               /\ stats' = stats
               /\ Len(cache') <= Len(cache)
               /\ \A k \in 1..Len(cache') :
                      k # j => \E l \in 1..Len(cache) : cache[l] = cache'[k]
               /\ \A l \in 1..Len(cache) :
                      (cache[l].key # cev'.key
                       /\ now - cache[l].created_at <= ttl_seconds)
                      => \E k \in 1..Len(cache') : cache'[k] = cache[l]
       /\ \A i \in 1..Len(cache) :
              (/\ IsGet
               /\ cache[i].key = cev'.key
               /\ now' - cache[i].created_at <= ttl_seconds)
              => /\ cev'.found = "fresh"
                 /\ cev'.ret = cache[i].value]_vars

\* The second call, a set after time has passed, has just overwritten an entry.
C36_Witness ==
    /\ cev.op = "set"
    /\ cev.found = "existing"
    /\ cev.n = 2
    /\ now > 0
    /\ LET i == index(cache, cev.key)
       IN /\ i # 0
          /\ cache[i] = CacheItem(cev.key, cev.value, now)

\* The (author, normalized text) pair of the message the step delivered.
Pair == <<msgs'[bev'.id].author, normalized(Tail(msgs'[bev'.id].content))>>

(* C40: a command rejected by duplicate suppression changes nothing: the   *)
(* pair's time of last acceptance and every other pair's stay as they      *)
(* were, the message identifier is not recorded, no handler runs and       *)
(* nothing is sent. A command is rejected only when its own pair, the same *)
(* user with the same normalized text, was accepted less than 1.5 s        *)
(* before; an accepted command records the time of its own pair only.      *)
C40_RejectionChangesNothing ==
    [][/\ (bev' # bev /\ bev'.reason = "duplicate")
          => /\ recent_commands' = recent_commands
             /\ processed_message_ids' = processed_message_ids
             /\ bev'.id \notin processed_message_ids'
             /\ bev'.handler = "none"
             /\ bev'.reply = "none"
             /\ Pair \in DOMAIN recent_commands
             /\ clock - recent_commands[Pair] < Window
       /\ (bev' # bev /\ bev'.reason = "accepted")
          => /\ DOMAIN recent_commands' = DOMAIN recent_commands \cup {Pair}
             /\ recent_commands'[Pair] = clock
             /\ \A k \in DOMAIN recent_commands :
                    k # Pair => recent_commands'[k] = recent_commands[k]]_vars

\* Three messages of one user with the same normalized text: the first was
\* accepted at 0, the second rejected inside the window and not recorded, and
\* the third has just been accepted 1.5 s or more after the first.
C40_Witness ==
    /\ Len(msgs) = 3
    /\ \A i \in 1..3 :
          /\ ~msgs[i].bot
          /\ msgs[i].author = msgs[1].author
          /\ startswith(msgs[i].content, command_prefix)
          /\ normalized(Tail(msgs[i].content)) = normalized(Tail(msgs[1].content))
    /\ processed_message_ids = {1, 3}
    /\ bev.id = 3
    /\ ~bev.redelivery
    /\ bev.reason = "accepted"
    /\ bev.last = <<0>>
    /\ bev.at >= Window

(* C32: MusicQueue.skip only sets should_skip: after it the pending songs, *)
(* current, is_playing and is_paused are what they were and should_skip is *)
(* true, whatever it was; a second call changes nothing more. The method   *)
(* acts on the queue's fields only, so the sink plays on.                  *)
C32_SkipOnlySetsFlag ==
    ev.op = "skip" =>
        /\ q.should_skip
        /\ q.songs = ev.pre.songs
        /\ q.current = ev.pre.current
        /\ q.is_playing = ev.pre.is_playing
        /\ q.is_paused = ev.pre.is_paused
        /\ skip(q) = q
        /\ skip(skip(ev.pre)) = q
        /\ vcs = [v \in VCIds |-> NoPlayer]

\* skip was called again on a queue already marked, with a song pending and a
\* current song playing.
C32_Witness ==
    /\ ev.op = "skip"
    /\ ev.pre.should_skip
    /\ q.songs # <<>>
    /\ q.current # None
    /\ q.is_playing

\* What set_volume stores for a value: the value itself when it lies in
\* [0, 1], else the nearer of the two bounds.
Clamped(volume) == IF volume < 0 THEN 0 ELSE IF volume > 100 THEN 100 ELSE volume

(* C37: the stored volume of every guild is always within [0, 1], a value  *)
(* outside being stored as the nearest bound; get_volume returns the value *)
(* last set for the guild, clamped so, or the default 0.5 when none was    *)
(* set or the guild was cleaned up since; and no call for one guild        *)
(* changes the volume of another.                                          *)
C37_VolumePerGuild ==
    /\ \A g \in DOMAIN volumes : volumes[g] >= 0 /\ volumes[g] <= 100
    /\ \A g \in Guilds :
          get_volume(volumes, g) = IF vev.given[g] = <<>> THEN default_volume
                                   ELSE Clamped(vev.given[g][1])
    /\ vev.op = "get_volume" =>
          /\ vev.ret = IF vev.given[vev.guild] = <<>> THEN default_volume
                       ELSE Clamped(vev.given[vev.guild][1])
          /\ volumes = vev.pre
    /\ vev.op \in {"set_volume", "cleanup_guild"} =>
          \A g \in Guilds :
              g # vev.guild => get_volume(volumes, g) = get_volume(vev.pre, g)

\* A value above 1 has been set for one guild while the other keeps the value
\* set for it before.
C37_Witness ==
    /\ vev.op = "set_volume"
    /\ vev.arg > 100
    /\ volumes[vev.guild] = 100
    /\ \E g \in DOMAIN volumes : g # vev.guild /\ volumes[g] = 30

(* C39: an operation on one guild (enqueue, next, skip, pause, resume,     *)
(* clear_queue, play_next, the end of a song) leaves every other guild     *)
(* with the queue instance it had, or with none, and that instance with    *)
(* the pending songs, current song and flags it had; clear_queue for a     *)
(* guild that has no queue creates none and changes nothing.               *)
C39_GuildIsolation ==
    [][mev' # mev =>
         /\ \A g \in Guilds :
               g # mev'.guild =>
                   /\ queues'[g] = queues[g]
                   /\ queues[g] # None => objs'[queues[g]] = objs[queues[g]]
         /\ (mev'.op = "clear_queue" /\ queues[mev'.guild] = None)
               => queues' = queues /\ objs' = objs]_vars

\* One guild's queue has just been cleared while another guild has a song
\* pending, behind a current song that plays.
C39_Witness ==
    /\ mev.op = "clear_queue"
    /\ queues[mev.guild] # None
    /\ objs[queues[mev.guild]] = MusicQueue
    /\ \E g \in Guilds :
          /\ g # mev.guild
          /\ queues[g] # None
          /\ objs[queues[g]].songs # <<>>
          /\ objs[queues[g]].current # None
          /\ objs[queues[g]].is_playing


\* Handler h's step ends its call of _get_or_create_voice_connection: it was in
\* the call (extraction had returned a song and the call began in this step,
\* or the handler awaited channel.connect) and is now past its last line.
ConnectionEnds(h) ==
    /\ plays[h].pc \in {"extract", "connect"}
    /\ plays'[h].pc = "done"
    /\ pev'.outcome # "no song"

(* C31: establishing a voice connection calls channel.connect at most      *)
(* three times and then stops: the third attempt's end ends the call; a    *)
(* call that returns has recorded the returned client in voice_connections *)
(* for the guild; a call that raises makes the handler reply with the      *)
(* failure, and the guild then has no voice_connections entry.             *)
C31_ConnectEndsCleanly ==
    [][\A h \in Plays :
         /\ plays'[h].tries <= Attempts
         /\ (plays[h].pc = "connect" /\ plays[h].tries = Attempts
               /\ plays'[h] # plays[h]) => plays'[h].pc = "done"
         /\ ConnectionEnds(h) =>
              IF plays'[h].client # None
              THEN /\ voice_connections' = plays'[h].client
                   /\ plays'[h].reply \in {"now playing", "added"}
              ELSE /\ plays'[h].reply = "failed"
                   /\ voice_connections' = None]_vars

(* C38: a /play handler whose extraction or voice connection fails changes *)
(* nothing of the guild's queue and creates no play_next task in any of    *)
(* its steps, and replies with the failure: when extract_song_info raises, *)
(* when the permission check raises, and when the last connect attempt     *)
(* fails. A song is added only in the step in which the connection call    *)
(* returned a client, extraction having returned before.                   *)
C38_FailedPlayChangesNothing ==
    [][\A h \in Plays : plays'[h] # plays[h] =>
         /\ pev'.outcome \notin {"registered", "ok"} =>
              /\ q' = q
              /\ spawns' = spawns
              /\ nextId' = nextId
         /\ plays'[h].reply = "failed" <=>
              \/ pev'.outcome \in {"no song", "denied"}
              \/ /\ pev'.op = "connect"
                 /\ pev'.outcome # "ok"
                 /\ plays[h].tries = Attempts
         /\ plays'[h].reply = "failed" => plays'[h].pc = "done" /\ plays'[h].client = None
         /\ pev'.outcome \in {"registered", "ok"} =>
              /\ plays[h].pc \in {"extract", "connect"}
              /\ q' = add(q, nextId).q
              /\ plays'[h].client = voice_connections'
              /\ vcs'[plays'[h].client].connected]_vars

\* A /play failed on the third connect attempt timing out while the song of
\* another /play, issued at the same time, is playing: the song is still
\* current and playing.
C38_Witness ==
    /\ pev.op = "connect"
    /\ pev.outcome = "timeout"
    /\ plays[pev.h].reply = "failed"
    /\ plays[pev.h].tries = Attempts
    /\ pev.pre.current # None
    /\ pev.pre.is_playing
    /\ q = pev.pre
    /\ \E v \in VCIds : vc_is_playing(vcs, v)

\* Songs are pending with no current song and nothing marked as playing.
Stalled == q.songs # <<>> /\ q.current = None /\ ~q.is_playing

====
